---- MODULE Spec2Model ----
(***************************************************************************)
(* Layout computation of the Grapher footer (Footer.tsx) and of its action *)
(* buttons (ActionButtons.tsx).                                            *)
(*                                                                         *)
(* A text is a sequence of words, each word given by its number of         *)
(* characters; the empty sequence is the empty string.  Widths are whole   *)
(* pixels.  Heights are tenths of a pixel, because a line is               *)
(* fontSize * lineHeight high and lineHeight is 1.1 or 1.2.                *)
(***************************************************************************)
EXTENDS Integers, Sequences, FiniteSets, TLC

VARIABLES
    manager,        \* the props of the Footer: props.manager
    maxWidth,       \* the props of the Footer: props.maxWidth
    buttonsProps,   \* the props of an ActionButtons rendered on its own
    lifecycle,      \* the Footer component: constructed, mounted, unmounted
    listeners,      \* the mousemove listeners registered on window
    tooltipTarget,  \* Footer.tooltipTarget
    pointer,        \* the last mousemove event: clientX, clientY and
                    \* whether the pointer is over the .cclogo element
    grapher,        \* the .GrapherComponent ancestor of the footer, if any
    console,        \* the messages written with console.error
    uncaught,       \* the exceptions thrown out of an event handler
    drive,          \* the files of the Google Drive folder of the images
    images,         \* imageStore.images
    fetchOutcome,   \* how the last fetchImageMetadata ended
    rows,           \* the table of the Image entity, in the order of the ids
    s3,             \* the keys of the objects of the S3 bucket
    syncs,          \* the calls of syncImagesToS3: where each of them is
    calls,          \* the syncImage calls of each syncImagesToS3
    notFound,       \* the file names each syncImagesToS3 did not find
    gdocs,          \* the table of the Gdoc entity
    stack,          \* the calls of a request for a document, the last on top
    request,        \* the last request for a document and how it settled
    dodLoads,       \* the times the request has loaded the DoD document
    dodValidations, \* the times the request has validated the DoD document
    errors          \* Gdoc.errors of the documents, as validate sets them

vars ==
    <<manager, maxWidth, buttonsProps, lifecycle, listeners, tooltipTarget,
      pointer, grapher, console, uncaught, drive, images, fetchOutcome, rows,
      s3, syncs, calls, notFound, gdocs, stack, request, dodLoads, dodValidations,
      errors>>

\* the state of the stand-alone ActionButtons and of the mouse handling
buttonsVars == <<buttonsProps>>
mouseVars ==
    <<lifecycle, listeners, tooltipTarget, pointer, grapher, console, uncaught>>

\* the state of the image store and of the documents
imageVars ==
    <<drive, images, fetchOutcome, rows, s3, syncs, calls, notFound>>
gdocVars == <<gdocs, stack, request, dodLoads, dodValidations, errors>>

\* The value of an optional string that was not given (no text has a word of
\* -1 characters).  The empty string is <<>>.
undefined == <<-1>>

Max(a, b) == IF a >= b THEN a ELSE b

Px(n) == 10 * n

-----------------------------------------------------------------------------
(* Bounds of the model *)

\* number of words of the longest sources line
MaxSourcesWords == 12
\* number of words of the longest note
MaxNoteWords == 15
\* the container widths are the multiples of WidthStep up to
\* MaxWidthSteps * WidthStep, and the threshold widths of the texts
WidthStep == 250
MaxWidthSteps == 3

\* the largest coordinate of the pointer
MaxPointer == 400

-----------------------------------------------------------------------------
(* Text measurer: Bounds.forText, TextWrap and MarkdownTextWrap of         *)
(* @ourworldindata/utils.                                                  *)

\* width of one word of n characters: 0.6 em per character, in whole pixels
WordWidth(n, fontSize) == (n * fontSize * 6) \div 10

\* width of the space between two words: 0.3 em
SpaceWidth(fontSize) == (fontSize * 3) \div 10

\* the sum of the widths of the words from the i-th on
RECURSIVE SumWordWidths(_, _, _)
SumWordWidths(words, i, fontSize) ==
    IF i > Len(words) THEN 0
    ELSE WordWidth(words[i], fontSize) + SumWordWidths(words, i + 1, fontSize)

\* Bounds.forText(text, { fontSize }).width: the width of the text on one line
forTextWidth(words, fontSize) ==
    IF words = <<>> THEN 0
    ELSE SumWordWidths(words, 1, fontSize)
             + (Len(words) - 1) * SpaceWidth(fontSize)

\* The lines of a wrapped text, each given by its width: words are added to
\* the line while it fits in wrapWidth; a line always takes one word at least,
\* so that a word wider than wrapWidth makes a line wider than wrapWidth.
\* wrapFrom reads the words from the i-th on; the line being filled has
\* lineWords words and is lineWidth wide.
RECURSIVE wrapFrom(_, _, _, _, _, _)
wrapFrom(words, i, fontSize, wrapWidth, lineWidth, lineWords) ==
    IF i > Len(words)
    THEN IF lineWords > 0 THEN <<lineWidth>> ELSE <<>>
    ELSE LET w == WordWidth(words[i], fontSize)
             next == IF lineWords = 0 THEN w
                     ELSE lineWidth + SpaceWidth(fontSize) + w
         IN IF next > wrapWidth /\ lineWords >= 1
            THEN <<lineWidth>>
                     \o wrapFrom(words, i + 1, fontSize, wrapWidth, w, 1)
            ELSE wrapFrom(words, i + 1, fontSize, wrapWidth, next,
                          lineWords + 1)

RECURSIVE MaxOfSeq(_)
MaxOfSeq(s) == IF s = <<>> THEN 0 ELSE Max(Head(s), MaxOfSeq(Tail(s)))

\* new TextWrap({ text, maxWidth, fontSize, lineHeight }): the block's words,
\* its wrapping width, its lines, its width (the widest line) and its height
\* (in tenths of a pixel).  lineHeight is given in tenths (11 or 12).
TextWrap(words, wrapWidth, fontSize, lineHeight) ==
    LET lines == wrapFrom(words, 1, fontSize, wrapWidth, 0, 0)
    IN [text |-> words,
        maxWidth |-> wrapWidth,
        htmlLines |-> lines,
        width |-> MaxOfSeq(lines),
        height |-> Len(lines) * fontSize * lineHeight]

\* new MarkdownTextWrap(...): the markdown markers are not part of the text
\* that is measured, so the block is the TextWrap of the words.
MarkdownTextWrap(words, wrapWidth, fontSize, lineHeight) ==
    TextWrap(words, wrapWidth, fontSize, lineHeight)

-----------------------------------------------------------------------------
(* ActionButtons.tsx *)

PADDING_BETWEEN_BUTTONS == 8
PADDING_BETWEEN_ICON_AND_LABEL == 4
BUTTON_HEIGHT == 32
BUTTON_WIDTH_ICON_ONLY == BUTTON_HEIGHT

\* the labels of the buttons
LabelDownload == <<8>>              \* "Download"
LabelShare == <<5>>                 \* "Share"
LabelEnterFullScreen == <<5, 11>>   \* "Enter full-screen"
LabelExploreTheData == <<7, 3, 4>>  \* "Explore the data"

computeButtonWidth(label) ==
    BUTTON_WIDTH_ICON_ONLY + PADDING_BETWEEN_ICON_AND_LABEL
        + forTextWidth(label, 13)

downloadButtonWithLabelWidth == computeButtonWidth(LabelDownload)
shareButtonWithLabelWidth == computeButtonWidth(LabelShare)
enterFullScreenButtonWithLabelWidth == computeButtonWidth(LabelEnterFullScreen)
exploreTheDataButtonWithLabelWidth == computeButtonWidth(LabelExploreTheData)

hasDownloadButton == manager.hasDownloadOverlay
hasShareButton == ~manager.hideShareTabButton
hasEnterFullScreenButton == ~manager.hideEnterFullScreenButton
hasExploreTheDataButton == ~manager.hideExploreTheDataButton

buttonCount ==
    (IF hasDownloadButton THEN 1 ELSE 0)
        + (IF hasShareButton THEN 1 ELSE 0)
        + (IF hasEnterFullScreenButton THEN 1 ELSE 0)
        + (IF hasExploreTheDataButton THEN 1 ELSE 0)

widthWithButtonLabels ==
    (IF hasDownloadButton THEN downloadButtonWithLabelWidth ELSE 0)
        + (IF hasShareButton THEN shareButtonWithLabelWidth ELSE 0)
        + (IF hasEnterFullScreenButton
           THEN enterFullScreenButtonWithLabelWidth ELSE 0)
        + (IF hasExploreTheDataButton
           THEN exploreTheDataButtonWithLabelWidth ELSE 0)
        + (buttonCount - 1) * PADDING_BETWEEN_BUTTONS

\* DEFAULT_BOUNDS.width of @ourworldindata/utils
DEFAULT_BOUNDS_width == 640

\* The props of an ActionButtons are a record with the fields maxWidth and
\* availableWidth, each of them when it is given (the manager is the
\* state's).
\* props.maxWidth ?? DEFAULT_BOUNDS.width
ActionButtons_maxWidth(props) ==
    IF "maxWidth" \in DOMAIN props
    THEN props.maxWidth
    ELSE DEFAULT_BOUNDS_width

\* props.availableWidth ?? this.maxWidth
ActionButtons_availableWidth(props) ==
    IF "availableWidth" \in DOMAIN props
    THEN props.availableWidth
    ELSE ActionButtons_maxWidth(props)

\* showButtonLabels without the rule of 0.33 * maxWidth
showButtonLabels_AvailableOnly(props) ==
    widthWithButtonLabels <= ActionButtons_availableWidth(props)

\* showButtonLabels with an inclusive threshold of 0.333 * maxWidth
showButtonLabels_OneThird(props) ==
    IF widthWithButtonLabels <= ActionButtons_availableWidth(props)
    THEN TRUE
    ELSE 1000 * widthWithButtonLabels <= 333 * ActionButtons_maxWidth(props)

\* widthWithButtonLabels < 0.33 * maxWidth, on integers
showButtonLabels(props) ==
    IF widthWithButtonLabels <= ActionButtons_availableWidth(props)
    THEN TRUE
    ELSE 100 * widthWithButtonLabels < 33 * ActionButtons_maxWidth(props)

\* exploreTheDataButtonWidth losing its label like the other buttons
exploreTheDataButtonWidth_LikeOthers ==
    IF ~hasExploreTheDataButton THEN 0
    ELSE IF ~showButtonLabels(buttonsProps) THEN BUTTON_WIDTH_ICON_ONLY
    ELSE exploreTheDataButtonWithLabelWidth

exploreTheDataButtonWidth ==
    IF ~hasExploreTheDataButton THEN 0 ELSE exploreTheDataButtonWithLabelWidth

\* ActionButtons.width without the branch for "Explore the data"
ActionButtons_width_NoExploreBranch(props) ==
    IF showButtonLabels(props)
    THEN widthWithButtonLabels
    ELSE buttonCount * BUTTON_WIDTH_ICON_ONLY
             + (buttonCount - 1) * PADDING_BETWEEN_BUTTONS

ActionButtons_width(props) ==
    IF showButtonLabels(props)
    THEN widthWithButtonLabels
    ELSE IF hasExploreTheDataButton
         THEN exploreTheDataButtonWidth
                  + (buttonCount - 1) * BUTTON_WIDTH_ICON_ONLY
                  + (buttonCount - 1) * PADDING_BETWEEN_BUTTONS
         ELSE buttonCount * BUTTON_WIDTH_ICON_ONLY
                  + (buttonCount - 1) * PADDING_BETWEEN_BUTTONS

\* in tenths of a pixel
ActionButtons_height == Px(BUTTON_HEIGHT)

downloadButtonWidth(props) ==
    IF ~hasDownloadButton THEN 0
    ELSE IF ~showButtonLabels(props) THEN BUTTON_WIDTH_ICON_ONLY
    ELSE downloadButtonWithLabelWidth

shareButtonWidth(props) ==
    IF ~hasShareButton THEN 0
    ELSE IF ~showButtonLabels(props) THEN BUTTON_WIDTH_ICON_ONLY
    ELSE shareButtonWithLabelWidth

enterFullScreenButtonWidth(props) ==
    IF ~hasEnterFullScreenButton THEN 0
    ELSE IF ~showButtonLabels(props) THEN BUTTON_WIDTH_ICON_ONLY
    ELSE enterFullScreenButtonWithLabelWidth

\* ActionButton(props): the <li> of one button, its label inside when
\* showLabel is set
ActionButton(label, width, showLabel) ==
    [label |-> label, width |-> width, hasLabel |-> showLabel]

\* ActionButtons.render(): the <li> elements of the list, in order, in a div
\* of the component's width and height
ActionButtons_render(props) ==
    [width |-> ActionButtons_width(props),
     height |-> BUTTON_HEIGHT,
     buttons |->
        (IF hasDownloadButton
         THEN <<ActionButton(LabelDownload, downloadButtonWidth(props),
                             showButtonLabels(props))>>
         ELSE <<>>)
        \o (IF hasShareButton
            THEN <<ActionButton(LabelShare, shareButtonWidth(props),
                                showButtonLabels(props))>>
            ELSE <<>>)
        \o (IF hasEnterFullScreenButton
            THEN <<ActionButton(LabelEnterFullScreen,
                                enterFullScreenButtonWidth(props),
                                showButtonLabels(props))>>
            ELSE <<>>)
        \o (IF hasExploreTheDataButton
            THEN <<[label |-> LabelExploreTheData,
                    width |-> exploreTheDataButtonWidth,
                    hasLabel |-> TRUE]>>
            ELSE <<>>)]

-----------------------------------------------------------------------------
(* Footer.tsx *)

HORIZONTAL_PADDING == 8
verticalPadding == 4

\* `Data source: ${sourcesLine} - Learn more about this data`
SourcesTextOf(sourcesLine) ==
    IF sourcesLine # <<>>
    THEN <<4, 7>> \o sourcesLine \o <<1, 5, 4, 5, 4, 4>>
    ELSE <<>>

sourcesText == SourcesTextOf(manager.sourcesLine)

\* `Note: ${note}`; an undefined and an empty note are both falsy
NoteTextOf(note) ==
    IF note # undefined /\ note # <<>> THEN <<5>> \o note ELSE <<>>

noteText == NoteTextOf(manager.note)

\* `**Note:** ${note}`: the same words, the first one in bold
markdownNoteText == NoteTextOf(manager.note)

\* "CC BY" or "Powered by ourworldindata.org"
LicenseTextOf(hasOWIDLogo) == IF hasOWIDLogo THEN <<2, 2>> ELSE <<7, 2, 18>>

licenseText == LicenseTextOf(manager.hasOWIDLogo)

\* A URL string is given by what parseUrl reads in it: its protocol, the
\* numbers of characters of its host name and of its path, and whether the
\* path ends with a slash.  UndefinedUrl is the URL that was not given and
\* EmptyUrl the empty string.
UndefinedUrl ==
    [protocol |-> "undefined", hostname |-> 0, pathname |-> 0,
     trailingSlash |-> FALSE]

EmptyUrl ==
    [protocol |-> "", hostname |-> 0, pathname |-> 0, trailingSlash |-> FALSE]

\* "http://localhost": host "localhost", path "/"
Localhost ==
    [protocol |-> "http", hostname |-> 9, pathname |-> 1, trailingSlash |-> TRUE]

\* manager.originUrlWithProtocol ?? "http://localhost"
originUrlWithProtocol ==
    IF manager.originUrlWithProtocol = UndefinedUrl
    THEN Localhost
    ELSE manager.originUrlWithProtocol

\* the lower-case letter of a capital letter, any other character as it is
LowerCaseOf(c) ==
    CASE c = "A" -> "a" [] c = "B" -> "b" [] c = "C" -> "c" [] c = "D" -> "d"
      [] c = "E" -> "e" [] c = "F" -> "f" [] c = "G" -> "g" [] c = "H" -> "h"
      [] c = "I" -> "i" [] c = "J" -> "j" [] c = "K" -> "k" [] c = "L" -> "l"
      [] c = "M" -> "m" [] c = "N" -> "n" [] c = "O" -> "o" [] c = "P" -> "p"
      [] c = "Q" -> "q" [] c = "R" -> "r" [] c = "S" -> "s" [] c = "T" -> "t"
      [] c = "U" -> "u" [] c = "V" -> "v" [] c = "W" -> "w" [] c = "X" -> "x"
      [] c = "Y" -> "y" [] c = "Z" -> "z"
      [] OTHER -> c

\* String.prototype.toLowerCase, character by character
RECURSIVE toLowerCase(_)
toLowerCase(protocol) ==
    IF Len(protocol) = 0 THEN ""
    ELSE LowerCaseOf(SubSeq(protocol, 1, 1)) \o toLowerCase(Tail(protocol))

\* originUrl.toLowerCase().match(/^https?:\/\/./)
MatchesHttp(url) ==
    /\ toLowerCase(url.protocol) \in {"http", "https"}
    /\ url.hostname + url.pathname >= 1

\* a string of n characters without a space
OneWord(n) == IF n = 0 THEN <<>> ELSE <<n>>

\* The text of the origin URL, a single word: host name and path without the
\* trailing slash (writing OurWorldInData.org for ourworldindata.org keeps
\* the number of characters); undefined when the URL is empty or is no
\* http(s) URL.
correctedUrlText ==
    LET originUrl == originUrlWithProtocol
    IN IF originUrl = EmptyUrl \/ ~MatchesHttp(originUrl)
       THEN undefined
       ELSE OneWord(originUrl.hostname + originUrl.pathname
                        - (IF originUrl.trailingSlash THEN 1 ELSE 0))

\* [urlText, licenseText].join(" | "), or the license text alone when the
\* URL text is undefined or empty
constructLicenseAndOriginUrlText(urlText, license) ==
    IF urlText = undefined \/ urlText = <<>>
    THEN license
    ELSE urlText \o <<1>> \o license

lineHeight == IF manager.isSmall THEN 11 ELSE 12

fontSize == IF manager.isMedium THEN 11 ELSE 12

sourcesFontSize == IF manager.isSmall THEN 12 ELSE 13

hasNote == noteText # <<>>

\* useFullWidthSources with >= for >
useFullWidthSources_Inclusive ==
    IF hasNote THEN TRUE
    ELSE forTextWidth(sourcesText, sourcesFontSize) >= 2 * maxWidth

\* useFullWidthSources without the test of the note
useFullWidthSources_IgnoringNote ==
    forTextWidth(sourcesText, sourcesFontSize) > 2 * maxWidth

useFullWidthSources ==
    IF hasNote THEN TRUE
    ELSE forTextWidth(sourcesText, sourcesFontSize) > 2 * maxWidth

\* useFullWidthNote with >= for >
useFullWidthNote_Inclusive == forTextWidth(noteText, fontSize) >= 2 * maxWidth

useFullWidthNote == forTextWidth(noteText, fontSize) > 2 * maxWidth

actionButtonsMaxWidth ==
    LET textWidth ==
            IF ~useFullWidthSources
            THEN forTextWidth(sourcesText, sourcesFontSize)
            ELSE IF hasNote /\ ~useFullWidthNote
                 THEN forTextWidth(noteText, fontSize)
                 ELSE 0
        licenseAndOriginUrlWidth ==
            forTextWidth(
                constructLicenseAndOriginUrlText(correctedUrlText, licenseText),
                fontSize)
    IN maxWidth - Max(textWidth, licenseAndOriginUrlWidth) - HORIZONTAL_PADDING

\* new ActionButtons({ manager, maxWidth: actionButtonsMaxWidth })
actionButtons ==
    [maxWidth |-> actionButtonsMaxWidth,
     width |-> ActionButtons_width([maxWidth |-> actionButtonsMaxWidth]),
     height |-> ActionButtons_height]

\* finalUrlText that keeps the URL whatever the width next to the buttons
finalUrlText_NeverDropped ==
    IF correctedUrlText = undefined \/ correctedUrlText = <<>>
    THEN undefined
    ELSE correctedUrlText

\* finalUrlText with >= for >
finalUrlText_Inclusive ==
    IF correctedUrlText = undefined \/ correctedUrlText = <<>>
    THEN undefined
    ELSE LET licenseAndOriginUrlWidth ==
                 forTextWidth(
                     constructLicenseAndOriginUrlText(correctedUrlText,
                                                      licenseText),
                     fontSize)
         IN IF licenseAndOriginUrlWidth + HORIZONTAL_PADDING
                 >= maxWidth - actionButtons.width
            THEN undefined
            ELSE correctedUrlText

finalUrlText ==
    IF correctedUrlText = undefined \/ correctedUrlText = <<>>
    THEN undefined
    ELSE LET licenseAndOriginUrlWidth ==
                 forTextWidth(
                     constructLicenseAndOriginUrlText(correctedUrlText,
                                                      licenseText),
                     fontSize)
         IN IF licenseAndOriginUrlWidth + HORIZONTAL_PADDING
                 > maxWidth - actionButtons.width
            THEN undefined
            ELSE correctedUrlText

licenseAndOriginUrlText ==
    constructLicenseAndOriginUrlText(finalUrlText, licenseText)

\* sourcesMaxWidth clamped at 0
sourcesMaxWidth_Clamped ==
    IF useFullWidthSources THEN maxWidth
    ELSE Max(0, maxWidth - actionButtons.width - HORIZONTAL_PADDING)

sourcesMaxWidth ==
    IF useFullWidthSources THEN maxWidth
    ELSE maxWidth - actionButtons.width - HORIZONTAL_PADDING

noteMaxWidth ==
    IF useFullWidthNote THEN maxWidth
    ELSE maxWidth - actionButtons.width - HORIZONTAL_PADDING

licenseAndOriginUrlMaxWidth == maxWidth

sources ==
    MarkdownTextWrap(sourcesText, sourcesMaxWidth, sourcesFontSize, lineHeight)

note == MarkdownTextWrap(markdownNoteText, noteMaxWidth, fontSize, lineHeight)

licenseAndOriginUrl ==
    TextWrap(licenseAndOriginUrlText, licenseAndOriginUrlMaxWidth, fontSize,
             lineHeight)

\* showLicenseNextToSources without the early return for Sources in the
\* bottom row
showLicenseNextToSources_AnySources ==
    sources.width + HORIZONTAL_PADDING + licenseAndOriginUrl.width <= maxWidth

\* showLicenseNextToSources with < for <=
showLicenseNextToSources_Strict ==
    IF ~useFullWidthSources THEN FALSE
    ELSE sources.width + HORIZONTAL_PADDING + licenseAndOriginUrl.width
             < maxWidth

showLicenseNextToSources ==
    IF ~useFullWidthSources THEN FALSE
    ELSE sources.width + HORIZONTAL_PADDING + licenseAndOriginUrl.width
             <= maxWidth

\* topContentHeight without the space between Sources and Note
topContentHeight_NoSpaceBetween ==
    LET renderSources == useFullWidthSources
        renderNote == hasNote /\ useFullWidthNote
    IN IF ~renderSources /\ ~renderNote THEN 0
       ELSE (IF renderSources THEN sources.height ELSE 0)
                + (IF renderNote THEN note.height ELSE 0)
                + Px(verticalPadding)

\* topContentHeight without the early return
topContentHeight_NoEarlyReturn ==
    LET renderSources == useFullWidthSources
        renderNote == hasNote /\ useFullWidthNote
    IN (IF renderSources THEN sources.height ELSE 0)
           + (IF renderSources /\ renderNote THEN Px(verticalPadding) ELSE 0)
           + (IF renderNote THEN note.height ELSE 0)
           + Px(verticalPadding)

topContentHeight ==
    LET renderSources == useFullWidthSources
        renderNote == hasNote /\ useFullWidthNote
    IN IF ~renderSources /\ ~renderNote THEN 0
       ELSE (IF renderSources THEN sources.height ELSE 0)
                + (IF renderSources /\ renderNote THEN Px(verticalPadding) ELSE 0)
                + (IF renderNote THEN note.height ELSE 0)
                + Px(verticalPadding)

bottomContentHeight ==
    LET renderSources == ~useFullWidthSources
        renderNote == hasNote /\ ~useFullWidthNote
        renderLicense == ~showLicenseNextToSources
        renderPadding == (renderSources \/ renderNote) /\ renderLicense
        textHeight ==
            (IF renderSources THEN sources.height
             ELSE IF renderNote THEN note.height ELSE 0)
                + (IF renderPadding THEN Px(verticalPadding) ELSE 0)
                + (IF renderLicense THEN licenseAndOriginUrl.height ELSE 0)
    IN Max(textHeight, actionButtons.height)

height == topContentHeight + bottomContentHeight

-----------------------------------------------------------------------------
(* What Footer.render() puts on the page.  An area is a sequence of rows   *)
(* from top to bottom and a row is a sequence of blocks from left to       *)
(* right; a block is "sources", "note", "license", "space" (the vertical   *)
(* spacer) or "ActionButtons".                                             *)

\* renderSources(): the paragraph of the wrapped lines of
\* `**Data source:** ${sourcesLine}`, whatever sourcesLine is; its width and
\* height are those of the wrapped lines
Footer_renderSources ==
    MarkdownTextWrap(<<4, 7>> \o manager.sourcesLine, sourcesMaxWidth,
                     sourcesFontSize, lineHeight)

\* " - " and the link "Learn more about this data", which renderSources puts
\* in the paragraph after the wrapped lines
Footer_renderSourcesInline == <<1, 5, 4, 5, 4, 4>>

\* renderNote()
Footer_renderNote == note

\* renderLicense(): the link to the origin URL and " | " when finalUrlText is
\* set, then the link with the license text
Footer_renderLicense ==
    [text |-> IF finalUrlText # undefined /\ finalUrlText # <<>>
              THEN finalUrlText \o <<1>> \o licenseText
              ELSE licenseText,
     width |-> licenseAndOriginUrl.width,
     height |-> licenseAndOriginUrl.height]

\* renderVerticalSpace(): its height, in tenths of a pixel
Footer_renderVerticalSpace == Px(verticalPadding)

\* renderTopContent(): the rows above the action buttons; null is <<>>
renderTopContent ==
    LET renderSources == useFullWidthSources
        renderNote == hasNote /\ useFullWidthNote
        renderLicense == showLicenseNextToSources
    IN IF ~renderSources /\ ~renderNote THEN <<>>
       ELSE (IF renderSources
             THEN << <<"sources">>
                        \o (IF renderLicense THEN <<"license">> ELSE <<>>) >>
             ELSE <<>>)
            \o (IF renderSources /\ renderNote THEN << <<"space">> >> ELSE <<>>)
            \o (IF renderNote THEN << <<"note">> >> ELSE <<>>)
            \o << <<"space">> >>

\* renderBottomContent centring a lone note however many lines it has
renderBottomContent_CentreAnyNote ==
    LET renderSources == ~useFullWidthSources
        renderNote == hasNote /\ ~useFullWidthNote
        renderLicense == ~showLicenseNextToSources
        renderPadding == (renderSources \/ renderNote) /\ renderLicense
        licenseOnly == ~renderSources /\ ~renderNote /\ renderLicense
        noteOnly == ~renderSources /\ renderNote /\ ~renderLicense
    IN [alignItems |->
            IF licenseOnly \/ noteOnly THEN "center" ELSE "flex-end",
        column |->
            (IF renderSources THEN <<"sources">>
             ELSE IF renderNote THEN <<"note">> ELSE <<>>)
            \o (IF renderPadding THEN <<"space">> ELSE <<>>)
            \o (IF renderLicense THEN <<"license">> ELSE <<>>),
        buttons |-> [maxWidth |-> actionButtonsMaxWidth]]

\* renderBottomContent(): the text column, from top to bottom, with the
\* action buttons to its right
renderBottomContent ==
    LET renderSources == ~useFullWidthSources
        renderNote == hasNote /\ ~useFullWidthNote
        renderLicense == ~showLicenseNextToSources
        renderPadding == (renderSources \/ renderNote) /\ renderLicense
        licenseOnly == ~renderSources /\ ~renderNote /\ renderLicense
        noteOnly == ~renderSources /\ renderNote /\ ~renderLicense
    IN [alignItems |->
            IF licenseOnly \/ (noteOnly /\ Len(note.htmlLines) <= 2)
            THEN "center" ELSE "flex-end",
        column |->
            (IF renderSources THEN <<"sources">>
             ELSE IF renderNote THEN <<"note">> ELSE <<>>)
            \o (IF renderPadding THEN <<"space">> ELSE <<>>)
            \o (IF renderLicense THEN <<"license">> ELSE <<>>),
        buttons |-> [maxWidth |-> actionButtonsMaxWidth]]

-----------------------------------------------------------------------------
(* Image.ts: the images of the Google Drive folder, the store of their
   metadata, the table of the Image entity and the S3 bucket *)

\* the latest modifiedTime of a file of the Drive folder
MaxModifiedTime == 2

\* A file name is the sequence of its parts between the dots: photo.png is
\* <<"photo", "png">>.
PhotoPng == <<"photo", "png">>
ChartSvg == <<"chart", "svg">>
TeamJpg == <<"team", "2023", "jpg">>
DraftPng == <<"draft", "png">>

\* The versions of photo.png in the Drive folder, in the order of its
\* history: the first one, the file without its description, the file with
\* another description and no width, then the file replaced by later ones.
\* A file without a description has description "", a file without a width
\* has width 0; modifiedTime is given in milliseconds, as Date.getTime
\* returns it.
FirstPhoto ==
    [id |-> "g-photo", name |-> PhotoPng, description |-> "A photo",
     modifiedTime |-> 1, width |-> 800]

PhotoHistory ==
    << FirstPhoto,
       [FirstPhoto EXCEPT !.description = ""],
       [FirstPhoto EXCEPT !.description = "Photo", !.width = 0] >>
    \o [t \in 1..(MaxModifiedTime - 1) |->
            [FirstPhoto EXCEPT !.modifiedTime = t + 1]]

PhotoVersions == {PhotoHistory[k] : k \in DOMAIN PhotoHistory}

\* the other files of the folder: an image, an image with a dot in its name
\* and a file that Drive lists without a modifiedTime
OtherFiles ==
    << [id |-> "g-chart", name |-> ChartSvg, description |-> "A chart",
        modifiedTime |-> 1, width |-> 600],
       [id |-> "g-team", name |-> TeamJpg, description |-> "The team",
        modifiedTime |-> 1, width |-> 400],
       [id |-> "g-draft", name |-> DraftPng, description |-> "A draft",
        modifiedTime |-> 0, width |-> 300] >>

DriveFolders == {<<photo>> \o OtherFiles : photo \in PhotoVersions}

\* the answer of driveClient.files.list: the files, or a failed request
ListFailure == <<"list failed">>

\* validateImage: throws for a file without description, else
\* Boolean(id && name && modifiedTime)
validateImage(image) ==
    IF image.description = "" THEN "throws"
    ELSE IF image.id # "" /\ image.name # <<>> /\ image.modifiedTime # 0
         THEN "valid" ELSE "invalid"

\* the ImageMetadata of a Drive file
ImageMetadataOf(google) ==
    [googleId |-> google.id,
     filename |-> google.name,
     defaultAlt |-> google.description,
     updatedAt |-> google.modifiedTime,
     originalWidth |-> IF google.width = 0 THEN 100 ELSE google.width]

\* imageStore.images before the first listing
NoImages == [defined |-> FALSE, files |-> {}]

\* fetchImageMetadata that assigns the metadata of every file that it has
\* validated before it reaches a file without description
fetchImageMetadata_FileByFile(res, before) ==
    IF res = ListFailure
    THEN [images |-> before, settled |-> "resolved", logged |-> TRUE,
          cause |-> "listing failed"]
    ELSE LET undescribed ==
                 {i \in DOMAIN res : validateImage(res[i]) = "throws"}
             firstThrow ==
                 IF undescribed = {} THEN Len(res) + 1
                 ELSE CHOOSE i \in undescribed :
                          \A j \in undescribed : i <= j
             valid ==
                 {i \in 1..(firstThrow - 1) : validateImage(res[i]) = "valid"}
         IN [images |->
                 [defined |-> TRUE,
                  files |-> {ImageMetadataOf(res[i]) : i \in valid}],
             settled |-> "resolved",
             logged |-> undescribed # {},
             cause |-> IF undescribed # {} THEN "missing description"
                       ELSE "none"]

\* ImageStore.fetchImageMetadata for the answer res of Drive and the value
\* of this.images before the call: the value of this.images after it, how the
\* promise settles, whether the error was logged and what failed.
\* keyBy(images, "filename") is the set of the metadata, the file names of
\* the folder being distinct.
fetchImageMetadata(res, before) ==
    IF res = ListFailure
    THEN [images |-> before, settled |-> "resolved", logged |-> TRUE,
          cause |-> "listing failed"]
    ELSE IF \E i \in DOMAIN res : validateImage(res[i]) = "throws"
         THEN [images |-> before, settled |-> "resolved", logged |-> TRUE,
               cause |-> "missing description"]
         ELSE [images |->
                   [defined |-> TRUE,
                    files |-> {ImageMetadataOf(res[i]) :
                                   i \in {j \in DOMAIN res :
                                             validateImage(res[j]) = "valid"}}],
               settled |-> "resolved", logged |-> FALSE, cause |-> "none"]

\* the names of the properties that every object inherits from
\* Object.prototype
ObjectPrototypeNames ==
    {"constructor", "hasOwnProperty", "isPrototypeOf", "propertyIsEnumerable",
     "toLocaleString", "toString", "valueOf", "__proto__",
     "__defineGetter__", "__defineSetter__", "__lookupGetter__",
     "__lookupSetter__"}

\* a value that an object inherits, read as ImageMetadata: it is truthy and
\* none of the five properties is defined
InheritedProperty ==
    [googleId |-> "", filename |-> <<>>, defaultAlt |-> "", updatedAt |-> 0,
     originalWidth |-> 0]

\* this.images?.[filename], as the set of the truthy values that it gives,
\* empty or a singleton: nothing while images is undefined, else the
\* metadata with this file name or, keyBy giving an ordinary object, the
\* value that the object inherits under this name
Lookup(store, filename) ==
    IF ~store.defined THEN {}
    ELSE IF \E m \in store.files : m.filename = filename
         THEN {m \in store.files : m.filename = filename}
         ELSE IF Len(filename) = 1 /\ filename[1] \in ObjectPrototypeNames
              THEN {InheritedProperty}
              ELSE {}

\* filename.slice(filename.indexOf(".") + 1): all that follows the first
\* dot, and the whole name when it has no dot (indexOf gives -1)
fileExtension(filename) ==
    IF Len(filename) <= 1 THEN filename ELSE Tail(filename)

\* The extensions for which the lookup in the object literal of the MIME
\* types gives a truthy value: its five keys, and the names that every
\* object inherits from Object.prototype.
SupportedExtensions ==
    {<<"png">>, <<"svg">>, <<"jpg">>, <<"jpeg">>, <<"webp">>}
    \cup {<<name>> : name \in ObjectPrototypeNames}

\* no Image: the null of findOneBy
NoRow ==
    [id |-> 0, googleId |-> "", filename |-> <<>>, defaultAlt |-> "",
     updatedAt |-> 0, originalWidth |-> 0]

\* Image.create(metadata): an entity that has no id yet
Image_create(metadata) ==
    [id |-> 0, googleId |-> metadata.googleId, filename |-> metadata.filename,
     defaultAlt |-> metadata.defaultAlt, updatedAt |-> metadata.updatedAt,
     originalWidth |-> metadata.originalWidth]

\* Image.findOneBy({ googleId }) on a table: the first row with this
\* googleId, or null
findOneBy(table, googleId) ==
    LET found == {i \in DOMAIN table : table[i].googleId = googleId}
    IN IF found = {} THEN NoRow
       ELSE table[CHOOSE i \in found : \A j \in found : i <= j]

\* the test of syncImage that sees only a change of updatedAt
Differs_UpdatedAtOnly(stored, fresh) == stored.updatedAt # fresh.updatedAt

\* the test of syncImage: the stored Image is out of date
Differs(stored, fresh) ==
    \/ stored.updatedAt # fresh.updatedAt
    \/ stored.defaultAlt # fresh.defaultAlt
    \/ stored.originalWidth # fresh.originalWidth

\* the ways fetchFromDriveAndUploadToS3 ends
UploadOutcomes == {"ok", "drive error", "unsupported extension", "s3 error"}

\* fetchFromDriveAndUploadToS3 of an image, given whether the request to Drive
\* and the request to S3 succeed
fetchFromDriveAndUploadToS3(image, driveOk, s3Ok) ==
    IF ~driveOk THEN "drive error"
    ELSE IF fileExtension(image.filename) \notin SupportedExtensions
         THEN "unsupported extension"
         ELSE IF ~s3Ok THEN "s3 error" ELSE "ok"

\* A call of Image.syncImage that syncImagesToS3 has started: its argument,
\* the statement it waits at, whether findOneBy has answered, the Image that
\* it gave (NoRow for null and before the answer), how the upload ended, whether it saved, whether it wrote to
\* console.error, and the value its promise resolved to (an Image id, 0 for
\* undefined).
NewCall(metadata) ==
    [metadata |-> metadata, pc |-> "find", found |-> FALSE, stored |-> NoRow,
     upload |-> "none", saved |-> FALSE, errorLogged |-> FALSE,
     settled |-> "pending", value |-> 0]

\* The calls of syncImagesToS3 that are under way at a time: nothing keeps a
\* call from starting before an earlier one has settled.
Batches == {"first", "second"}

\* arrays of file names for the parameter of syncImagesToS3
FilenameLists ==
    { <<PhotoPng>>, <<TeamJpg, DraftPng>> }

\* the arguments of a call of syncImagesToS3: an array of file names, or
\* none, as in the call of Gdoc.loadImageMetadata (filenames is undefined)
SyncArguments ==
    {[given |-> FALSE, filenames |-> <<>>]}
        \cup {[given |-> TRUE, filenames |-> f] : f \in FilenameLists}

\* syncImagesToS3 without a record of a call
NoSync == [pc |-> "idle", given |-> FALSE, filenames |-> <<>>]

-----------------------------------------------------------------------------
(* Gdoc.ts: the documents and their validation *)

\* the id of the document of the details on demand (DoD), a server setting
GDOCS_DETAILS_ON_DEMAND_ID == "dod"

\* the deepest stack of calls the model follows
MaxStack == 8

\* A document of the table: its id, whether it is published, and its
\* content: the ids of the details its body refers to (Gdoc.details),
\* whether the content has details and the ids of the details it defines
\* (content.details, of the DoD document), its cover (<<>> for none), the
\* file names of the images of its body and the ids of the documents its
\* body links to (the targets of Gdoc.links with linkType gdoc).
Article ==
    [id |-> "article", published |-> TRUE,
     details |-> {"gdp", "ppp", "toString"}, hasDetails |-> FALSE,
     defines |-> {}, cover |-> <<>>, images |-> {},
     links |-> {"essay", "missing"}]

Essay ==
    [id |-> "essay", published |-> FALSE, details |-> {},
     hasDetails |-> FALSE, defines |-> {}, cover |-> <<>>, images |-> {},
     links |-> {}]

\* a document with a cover
Gallery ==
    [id |-> "gallery", published |-> TRUE, details |-> {},
     hasDetails |-> FALSE, defines |-> {}, cover |-> PhotoPng,
     images |-> {}, links |-> {}]

\* a document with an image in its body
Album ==
    [id |-> "album", published |-> TRUE, details |-> {"gdp"},
     hasDetails |-> FALSE, defines |-> {}, cover |-> <<>>,
     images |-> {ChartSvg}, links |-> {}]

\* a document that links to a document with a cover
Report ==
    [id |-> "report", published |-> TRUE, details |-> {},
     hasDetails |-> FALSE, defines |-> {}, cover |-> <<>>, images |-> {},
     links |-> {"gallery"}]

Documents == {Article, Essay, Gallery, Album, Report}

DodDocument(details, hasDetails, defines) ==
    [id |-> GDOCS_DETAILS_ON_DEMAND_ID, published |-> TRUE,
     details |-> details, hasDetails |-> hasDetails, defines |-> defines,
     cover |-> <<>>, images |-> {}, links |-> {}]

\* the DoD documents: the last one has a cover
DodDocuments ==
    { DodDocument({"gdp"}, TRUE, {"gdp", "ppp"}),
      DodDocument({}, TRUE, {"gdp"}),
      DodDocument({}, FALSE, {}),
      [DodDocument({}, TRUE, {"ppp"}) EXCEPT !.cover = PhotoPng] }

\* the tables of documents: with and without a DoD document
GdocTables == {Documents} \cup {Documents \cup {d} : d \in DodDocuments}

\* the ids that getGdocFromContentSource is called with
GdocIds ==
    {"article", "essay", "gallery", "album", "report", "unknown",
     GDOCS_DETAILS_ON_DEMAND_ID}

\* the parameter contentSource: undefined, GdocsContentSource.Internal or
\* GdocsContentSource.Gdocs
ContentSources == {"undefined", "internal", "gdocs"}

\* the content of a document
ContentOf(gdoc) ==
    [details |-> gdoc.details, hasDetails |-> gdoc.hasDetails,
     defines |-> gdoc.defines, cover |-> gdoc.cover, images |-> gdoc.images,
     links |-> gdoc.links]

\* The contents that Google Docs has of a document, of which
\* fetchAndEnrichArticle gets one: the content of the table, or one in which
\* the body no longer refers to the detail ppp, or one in which the body
\* has an image.
LiveContents(gdoc) ==
    { ContentOf(gdoc),
      [ContentOf(gdoc) EXCEPT !.details = gdoc.details \ {"ppp"},
                              !.links = {}],
      [ContentOf(gdoc) EXCEPT !.images = {PhotoPng}] }

\* no document: before findOneBy has answered
NoGdoc ==
    [id |-> "", published |-> FALSE, details |-> {}, hasDetails |-> FALSE,
     defines |-> {}, cover |-> <<>>, images |-> {}, links |-> {},
     linkedDocuments |-> {}]

\* the entity of a row: linkedDocuments = {} is a field of the class
Entity(row) ==
    [id |-> row.id, published |-> row.published, details |-> row.details,
     hasDetails |-> row.hasDetails, defines |-> row.defines,
     cover |-> row.cover, images |-> row.images, links |-> row.links,
     linkedDocuments |-> {}]

\* this.content = archieToEnriched(text)
WithContent(gdoc, content) ==
    [gdoc EXCEPT !.details = content.details,
                 !.hasDetails = content.hasDetails,
                 !.defines = content.defines,
                 !.cover = content.cover,
                 !.images = content.images,
                 !.links = content.links]

\* Gdoc.findOneBy({ id }): the documents with this id, none or one
Gdoc_findOneBy(table, id) == {g \in table : g.id = id}

\* Gdoc.filenames: the cover and the images of the body
Gdoc_filenames(gdoc) ==
    (IF gdoc.cover # <<>> THEN {gdoc.cover} ELSE {}) \cup gdoc.images

\* filenamesToLoad of loadImageMetadata: the file names of the document and
\* the covers of its linked documents
filenamesToLoad(gdoc) ==
    Gdoc_filenames(gdoc)
        \cup {g.cover : g \in {l \in gdoc.linkedDocuments : l.cover # <<>>}}

\* object[name] is truthy for an ordinary object with these own keys, each
\* with a truthy value: the name is a key or is inherited
HasProperty(keys, name) == name \in keys \/ name \in ObjectPrototypeNames

\* filenameErrors of validate, with this.imageMetadata = {} as the class
\* sets it: an error for every file name; a file name that every object
\* inherits is found and has no defaultAlt
filenameErrorsOf(gdoc) ==
    {[filename |-> f,
      message |-> IF Len(f) = 1 /\ HasProperty({}, f[1])
                  THEN "is missing a default alt text"
                  ELSE "found in Drive"] : f \in Gdoc_filenames(gdoc)}

\* linkErrors of validate: a warning for every link to a document that is
\* not among the linked documents or is not published
linkErrorsOf(gdoc) ==
    LET ids == {l.id : l \in gdoc.linkedDocuments}
        published == {l.id : l \in {d \in gdoc.linkedDocuments : d.published}}
    IN {[target |-> id,
         message |-> IF HasProperty(ids, id) THEN "unpublished"
                     ELSE "unknown"] : id \in gdoc.links \ published}

\* dodErrors of validate: the details of the document that are not
\* properties of the details of the DoD document
dodErrorsOf(gdoc, detailsGdoc) ==
    {detailId \in gdoc.details :
         detailsGdoc.hasDetails /\ ~HasProperty(detailsGdoc.defines, detailId)}

\* Gdoc.errors before validate
NoErrors == [filenames |-> {}, links |-> {}, details |-> {}]

\* A call on the stack: a static or a member function of Gdoc, the id of the
\* document, the statement the call is at, the parameter contentSource, the
\* Gdoc object of the call and the Gdoc that the call it awaits returned.
Frame(fn, id, pc, source, gdoc) ==
    [fn |-> fn, id |-> id, pc |-> pc, source |-> source, gdoc |-> gdoc,
     detailsGdoc |-> NoGdoc]

Top(s) == s[Len(s)]

Pop(s) == SubSeq(s, 1, Len(s) - 1)

\* the calls of validate that have not returned
ValidateDepth(s) ==
    Cardinality({i \in DOMAIN s : s[i].fn = "validate"})

-----------------------------------------------------------------------------
(* The inputs of the model *)

\* a text of k words of 3 to 8 characters
WordsOf(k) == [i \in 1..k |-> 3 + (i % 6)]

SourcesLines == {WordsOf(k) : k \in {0, 1, MaxSourcesWords}}

Notes == {undefined} \cup {WordsOf(k) : k \in {0, MaxNoteWords}}

\* HttpS://ourworldindata.org/grapher/life-expectancy/
GrapherUrl ==
    [protocol |-> "HttpS", hostname |-> 18, pathname |-> 25,
     trailingSlash |-> TRUE]

\* ftp://ourworldindata.org/data
FtpUrl ==
    [protocol |-> "ftp", hostname |-> 18, pathname |-> 5,
     trailingSlash |-> FALSE]

OriginUrls == {UndefinedUrl, GrapherUrl, FtpUrl}

\* the size classes of a chart: large, medium, small
SizeClasses ==
    {[isSmall |-> FALSE, isMedium |-> FALSE],
     [isSmall |-> FALSE, isMedium |-> TRUE],
     [isSmall |-> TRUE, isMedium |-> TRUE]}

\* the widths at which a decision of the layout flips, for the texts above
ThresholdWidths ==
    LET sourcesWidth ==
            forTextWidth(SourcesTextOf(WordsOf(MaxSourcesWords)), 13)
        noteWidth == forTextWidth(NoteTextOf(WordsOf(MaxNoteWords)), 12)
        shortSourcesWidth == forTextWidth(SourcesTextOf(WordsOf(1)), 13)
        licenseWidth == forTextWidth(LicenseTextOf(TRUE), 12)
        urlAndLicenseWidth ==
            forTextWidth(<<GrapherUrl.hostname + GrapherUrl.pathname - 1, 1>>
                             \o LicenseTextOf(TRUE), 12)
    IN {sourcesWidth \div 2 + d : d \in {-1, 0, 1}}
           \cup {noteWidth \div 2 + d : d \in {-1, 0}}
           \cup {shortSourcesWidth + HORIZONTAL_PADDING + licenseWidth + d :
                     d \in {-1, 0}}
           \cup {urlAndLicenseWidth + d : d \in {-1, 0}}

MaxWidths == {k * WidthStep : k \in 1..MaxWidthSteps} \cup ThresholdWidths

Managers ==
    [sourcesLine : SourcesLines,
     note : Notes,
     hasOWIDLogo : BOOLEAN,
     originUrlWithProtocol : OriginUrls,
     isSmall : BOOLEAN,
     isMedium : BOOLEAN,
     hasDownloadOverlay : BOOLEAN,
     hideShareTabButton : BOOLEAN,
     hideEnterFullScreenButton : BOOLEAN,
     hideExploreTheDataButton : BOOLEAN]

\* the widths given to a stand-alone ActionButtons: the width of a wide
\* container and the widths around which the label rule flips for four
\* buttons (a third of it, and 0.33 of it, is their labelled width)
ContainerWidth == 1600

FourButtonsWidth ==
    downloadButtonWithLabelWidth + shareButtonWithLabelWidth
        + enterFullScreenButtonWithLabelWidth
        + exploreTheDataButtonWithLabelWidth + 3 * PADDING_BETWEEN_BUTTONS

ButtonsMaxWidths ==
    {ContainerWidth, FourButtonsWidth}
        \cup {(1000 * FourButtonsWidth) \div 333 + d : d \in {0, 1}}
        \cup {(1000 * FourButtonsWidth) \div 334 + d : d \in {0, 1}}
        \cup {(100 * FourButtonsWidth) \div 33 + d : d \in {0, 1}}

\* the slot left for the buttons: none, a narrow one, one that holds the
\* four labelled buttons exactly or lacks one pixel for it
ButtonsAvailableWidths ==
    {0, BUTTON_WIDTH_ICON_ONLY, FourButtonsWidth - 1, FourButtonsWidth}

ButtonsProps ==
    [maxWidth : ButtonsMaxWidths]
        \cup [maxWidth : ButtonsMaxWidths,
              availableWidth : ButtonsAvailableWidths]
        \cup [availableWidth : ButtonsAvailableWidths]

\* the bounding rectangle of the .GrapherComponent element: left, top
GrapherRect == <<20, 100>>

\* the pointer positions of the mousemove events: clientX, clientY
PointerXs == {0, 30, MaxPointer}
PointerYs == {110, MaxPointer}

TypeOK ==
    /\ manager \in Managers
    /\ maxWidth \in MaxWidths
    /\ buttonsProps \in ButtonsProps
    /\ lifecycle \in {"constructed", "mounted", "unmounted"}
    /\ listeners \subseteq {"onMouseMove"}
    /\ tooltipTarget \in {undefined} \cup (Int \X Int)
    /\ pointer \in [clientX : PointerXs \cup {0}, clientY : PointerYs \cup {0},
                     overLicense : BOOLEAN]
    /\ grapher \in {undefined, GrapherRect}
    /\ console \subseteq {"Grapher was falsy"}
    /\ uncaught \subseteq {"TypeError"}
    /\ drive \in DriveFolders
    /\ images.defined \in BOOLEAN
    /\ images.files \subseteq {ImageMetadataOf(f) : f \in
                                  PhotoVersions \cup
                                      {OtherFiles[i] : i \in DOMAIN OtherFiles}}
    /\ fetchOutcome \in
           [settled : {"resolved", "rejected"}, logged : BOOLEAN,
            cause : {"none", "listing failed", "missing description"}]
    /\ \A i \in DOMAIN rows : rows[i].id = i
    /\ s3 \subseteq {PhotoPng, ChartSvg, TeamJpg, DraftPng}
    /\ \A b \in Batches :
           /\ \A i \in DOMAIN calls[b] :
                  /\ calls[b][i].pc \in {"find", "drive", "s3", "save", "done"}
                  /\ calls[b][i].found \in BOOLEAN
                  /\ calls[b][i].upload \in UploadOutcomes \cup {"none"}
                  /\ calls[b][i].settled
                         \in {"pending", "resolved", "rejected"}
           /\ notFound[b] \subseteq {PhotoPng, ChartSvg, TeamJpg, DraftPng}
           /\ syncs[b].pc \in {"idle", "list", "map", "all", "threw"}
           /\ syncs[b].given \in BOOLEAN
           /\ syncs[b].filenames \in FilenameLists \cup {<<>>}
    /\ gdocs \in GdocTables
    /\ Len(stack) <= MaxStack
    /\ request \in [id : GdocIds \cup {"none"},
                    settled : {"pending", "resolved", "rejected"}]
    /\ dodLoads \in 0..MaxStack
    /\ dodValidations \in 0..MaxStack
    /\ \A id \in DOMAIN errors :
           /\ errors[id].details \subseteq {"gdp", "ppp"}
           /\ \A e \in errors[id].links : e.target \in GdocIds \cup {"missing"}
           /\ errors[id].filenames = {}

-----------------------------------------------------------------------------------------------------------------------------------------------------
(* The footer is built from its props and rendered again whenever the     *)
(* chart passes new props: a new width, or a change of the manager.       *)

\* a chart without sources line, note, origin URL and download overlay, at
\* the largest width
InitFooter ==
    /\ manager = [sourcesLine |-> <<>>,
                  note |-> undefined,
                  hasOWIDLogo |-> TRUE,
                  originUrlWithProtocol |-> UndefinedUrl,
                  isSmall |-> FALSE,
                  isMedium |-> FALSE,
                  hasDownloadOverlay |-> FALSE,
                  hideShareTabButton |-> FALSE,
                  hideEnterFullScreenButton |-> FALSE,
                  hideExploreTheDataButton |-> FALSE]
    /\ maxWidth = MaxWidthSteps * WidthStep

\* an ActionButtons given the width of a wide container and no
\* availableWidth
InitButtons == buttonsProps = [maxWidth |-> ContainerWidth]

\* a Footer that was constructed and not mounted yet, inside a Grapher
InitMouse ==
    /\ lifecycle = "constructed"
    /\ listeners = {}
    /\ tooltipTarget = undefined
    /\ pointer = [clientX |-> 0, clientY |-> 0, overLicense |-> FALSE]
    /\ grapher = GrapherRect
    /\ console = {}
    /\ uncaught = {}

\* a Drive folder with a described photo, a store that has not listed it, an
\* empty table and an empty bucket
InitImages ==
    /\ drive = <<FirstPhoto>> \o OtherFiles
    /\ images = NoImages
    /\ fetchOutcome =
           [settled |-> "resolved", logged |-> FALSE, cause |-> "none"]
    /\ rows = <<>>
    /\ s3 = {}
    /\ calls = [b \in Batches |-> <<>>]
    /\ notFound = [b \in Batches |-> {}]
    /\ syncs = [b \in Batches |-> NoSync]

\* a table with the DoD document and no request
InitGdocs ==
    /\ gdocs = Documents \cup {DodDocument({"gdp"}, TRUE, {"gdp", "ppp"})}
    /\ stack = <<>>
    /\ request = [id |-> "none", settled |-> "resolved"]
    /\ dodLoads = 0
    /\ dodValidations = 0
    /\ errors = [id \in GdocIds \ {"unknown"} |-> NoErrors]

Init == InitFooter /\ InitButtons /\ InitMouse /\ InitImages /\ InitGdocs

\* the container is resized
Resize ==
    /\ \E w \in MaxWidths : maxWidth' = w
    /\ UNCHANGED <<imageVars, gdocVars, manager, buttonsVars, mouseVars>>

\* the chart's sources line changes
SetSourcesLine ==
    /\ \E line \in SourcesLines :
           manager' = [manager EXCEPT !.sourcesLine = line]
    /\ UNCHANGED <<imageVars, gdocVars, maxWidth, buttonsVars, mouseVars>>

\* the chart's note changes
SetNote ==
    /\ \E n \in Notes : manager' = [manager EXCEPT !.note = n]
    /\ UNCHANGED <<imageVars, gdocVars, maxWidth, buttonsVars, mouseVars>>

\* the chart shows or drops the OWID logo
SetLogo ==
    /\ manager' = [manager EXCEPT !.hasOWIDLogo = ~manager.hasOWIDLogo]
    /\ UNCHANGED <<imageVars, gdocVars, maxWidth, buttonsVars, mouseVars>>

\* the chart's origin URL changes
SetOriginUrl ==
    /\ \E url \in OriginUrls :
           manager' = [manager EXCEPT !.originUrlWithProtocol = url]
    /\ UNCHANGED <<imageVars, gdocVars, maxWidth, buttonsVars, mouseVars>>

\* the chart changes its size class
SetSize ==
    /\ \E size \in SizeClasses :
           manager' = [manager EXCEPT !.isSmall = size.isSmall,
                                      !.isMedium = size.isMedium]
    /\ UNCHANGED <<imageVars, gdocVars, maxWidth, buttonsVars, mouseVars>>

\* the chart shows or hides one of the action buttons
SetButtons ==
    /\ \/ manager' = [manager EXCEPT !.hasDownloadOverlay =
                                         ~manager.hasDownloadOverlay]
       \/ manager' = [manager EXCEPT !.hideShareTabButton =
                                         ~manager.hideShareTabButton]
       \/ manager' = [manager EXCEPT !.hideEnterFullScreenButton =
                                         ~manager.hideEnterFullScreenButton]
       \/ manager' = [manager EXCEPT !.hideExploreTheDataButton =
                                         ~manager.hideExploreTheDataButton]
    /\ UNCHANGED <<imageVars, gdocVars, maxWidth, buttonsVars, mouseVars>>

Next ==
    \/ Resize
    \/ SetSourcesLine
    \/ SetNote
    \/ SetLogo
    \/ SetOriginUrl
    \/ SetSize
    \/ SetButtons

Spec == Init /\ [][Next]_vars

-----------------------------------------------------------------------------
(* An ActionButtons rendered on its own, with its own maxWidth and, when   *)
(* given, availableWidth; the buttons it shows are the manager's.          *)

\* the parent passes new props to the ActionButtons
SetButtonsProps ==
    /\ \E p \in ButtonsProps : buttonsProps' = p
    /\ UNCHANGED <<imageVars, gdocVars, manager, maxWidth, mouseVars>>

NextButtons ==
    \/ SetButtonsProps
    \/ SetButtons

SpecButtons == Init /\ [][NextButtons]_vars

-----------------------------------------------------------------------------
(* The tooltip of the license: the Footer listens to the mousemove events  *)
(* of the window while it is mounted.  this.base.current is the <footer>   *)
(* element while the component is mounted and null otherwise.              *)

\* getRelativeMouse(node, event): the position of the event relative to the
\* bounding rectangle of the node
getRelativeMouse(node, e) == <<e.clientX - node[1], e.clientY - node[2]>>

\* this.base.current.querySelector(".cclogo"): renderLicense gives the link
\* of the license the class cclogo when the chart has the OWID logo
querySelectorCclogo == manager.hasOWIDLogo

\* div.closest(".GrapherComponent"): the ancestor, or undefined for null
closestGrapherComponent == grapher

\* onMouseMove with the tooltip left as it is when the pointer is elsewhere
onMouseMove_NeverCleared(e) ==
    IF lifecycle # "mounted"
    THEN /\ uncaught' = uncaught \cup {"TypeError"}
         /\ UNCHANGED <<tooltipTarget, console>>
    ELSE IF querySelectorCclogo /\ pointer'.overLicense
    THEN IF closestGrapherComponent # undefined
         THEN /\ tooltipTarget' = getRelativeMouse(closestGrapherComponent, e)
              /\ UNCHANGED <<console, uncaught>>
         ELSE /\ console' = console \cup {"Grapher was falsy"}
              /\ UNCHANGED <<tooltipTarget, uncaught>>
    ELSE UNCHANGED <<tooltipTarget, console, uncaught>>

\* onMouseMove dropping the tooltip when no Grapher is found
onMouseMove_ClearedWithoutGrapher(e) ==
    IF lifecycle # "mounted"
    THEN /\ uncaught' = uncaught \cup {"TypeError"}
         /\ UNCHANGED <<tooltipTarget, console>>
    ELSE IF querySelectorCclogo /\ pointer'.overLicense
    THEN IF closestGrapherComponent # undefined
         THEN /\ tooltipTarget' = getRelativeMouse(closestGrapherComponent, e)
              /\ UNCHANGED <<console, uncaught>>
         ELSE /\ console' = console \cup {"Grapher was falsy"}
              /\ tooltipTarget' = undefined
              /\ UNCHANGED uncaught
    ELSE /\ tooltipTarget' = undefined
         /\ UNCHANGED <<console, uncaught>>

\* Footer.onMouseMove(e); cc.matches(":hover") is the state of the pointer
\* at the event.  this.base.current! is null when the component is not
\* mounted, and querySelector of null throws a TypeError.
onMouseMove(e) ==
    IF lifecycle # "mounted"
    THEN /\ uncaught' = uncaught \cup {"TypeError"}
         /\ UNCHANGED <<tooltipTarget, console>>
    ELSE IF querySelectorCclogo /\ pointer'.overLicense
    THEN IF closestGrapherComponent # undefined
         THEN /\ tooltipTarget' = getRelativeMouse(closestGrapherComponent, e)
              /\ UNCHANGED <<console, uncaught>>
         ELSE /\ console' = console \cup {"Grapher was falsy"}
              /\ UNCHANGED <<tooltipTarget, uncaught>>
    ELSE /\ tooltipTarget' = undefined
         /\ UNCHANGED <<console, uncaught>>

\* componentDidMount()
componentDidMount == listeners' = listeners \cup {"onMouseMove"}

\* componentWillUnmount leaving the listener on the window
componentWillUnmount_KeepsListener == listeners' = listeners

\* componentWillUnmount()
componentWillUnmount == listeners' = listeners \ {"onMouseMove"}

\* React mounts the component: the ref is set, then componentDidMount runs
Mount ==
    /\ lifecycle = "constructed"
    /\ lifecycle' = "mounted"
    /\ componentDidMount
    /\ UNCHANGED <<imageVars, gdocVars>>
    /\ UNCHANGED <<manager, maxWidth, buttonsVars, tooltipTarget, pointer,
                   grapher, console, uncaught>>

\* React unmounts the component: componentWillUnmount runs and the ref is
\* cleared, in one commit
Unmount ==
    /\ lifecycle = "mounted"
    /\ lifecycle' = "unmounted"
    /\ componentWillUnmount
    /\ UNCHANGED <<imageVars, gdocVars>>
    /\ UNCHANGED <<manager, maxWidth, buttonsVars, tooltipTarget, pointer,
                   grapher, console, uncaught>>

\* the window dispatches a mousemove event to its listeners
MouseMove ==
    /\ \E x \in PointerXs, y \in PointerYs, over \in BOOLEAN :
           /\ pointer' = [clientX |-> x, clientY |-> y, overLicense |-> over]
           /\ IF "onMouseMove" \in listeners
              THEN onMouseMove([clientX |-> x, clientY |-> y])
              ELSE UNCHANGED <<tooltipTarget, console, uncaught>>
    /\ UNCHANGED <<imageVars, gdocVars>>
    /\ UNCHANGED <<manager, maxWidth, buttonsVars, lifecycle, listeners,
                   grapher>>

\* the page moves the footer into or out of a .GrapherComponent element
SetGrapher ==
    /\ grapher' = IF grapher = undefined THEN GrapherRect ELSE undefined
    /\ UNCHANGED <<imageVars, gdocVars>>
    /\ UNCHANGED <<manager, maxWidth, buttonsVars, lifecycle, listeners,
                   tooltipTarget, pointer, console, uncaught>>

NextMouse ==
    \/ Mount
    \/ Unmount
    \/ MouseMove
    \/ SetGrapher
    \/ SetLogo

SpecMouse == Init /\ [][NextMouse]_vars

-----------------------------------------------------------------------------
(* The image store and the syncing of images to S3 *)

\* the syncImage calls of filenames.map in syncImagesToS3, in the order of
\* the file names that have metadata in the store
RECURSIVE StartedCalls(_, _)
StartedCalls(filenames, store) ==
    IF filenames = <<>> THEN <<>>
    ELSE LET imageMetadata == Lookup(store, Head(filenames))
         IN (IF imageMetadata # {}
             THEN <<NewCall(CHOOSE m \in imageMetadata : TRUE)>>
             ELSE <<>>)
                \o StartedCalls(Tail(filenames), store)

\* no call of syncImagesToS3 is under way in the slot
Through(b) == syncs[b].pc = "idle"

\* a call may start in the slot, whatever its arguments and whatever the
\* other call is at: the slot is free, and of two free slots the first is
\* taken
MayStart(b) ==
    /\ Through(b)
    /\ b = "second" => ~Through("first")

\* a file of the Drive folder is edited, described or replaced
DriveEdit ==
    /\ \E k \in DOMAIN PhotoHistory :
           /\ drive[1] = PhotoHistory[k]
           /\ k < Len(PhotoHistory)
           /\ drive' = <<PhotoHistory[k + 1]>> \o OtherFiles
    /\ UNCHANGED <<images, fetchOutcome, rows, s3, calls, notFound, syncs>>
    /\ UNCHANGED <<manager, maxWidth, buttonsVars, mouseVars, gdocVars>>

\* ImageStore.fetchImageMetadata called on its own, at the answer of Drive:
\* Drive answers with its files or fails
FetchImageMetadata ==
    /\ \E res \in {drive, ListFailure} :
           LET r == fetchImageMetadata(res, images)
           IN /\ images' = r.images
              /\ fetchOutcome' =
                     [settled |-> r.settled, logged |-> r.logged,
                      cause |-> r.cause]
    /\ UNCHANGED <<drive, rows, s3, calls, notFound, syncs>>
    /\ UNCHANGED <<manager, maxWidth, buttonsVars, mouseVars, gdocVars>>

\* ImageStore.syncImagesToS3 is called, with an array of file names or, as
\* Gdoc.loadImageMetadata calls it, without an argument: it calls
\* fetchImageMetadata, which sends the request to Drive, and waits.
SyncImagesToS3(b) ==
    /\ \E arguments \in SyncArguments :
           /\ MayStart(b)
           /\ syncs' = [syncs EXCEPT ![b] =
                            [pc |-> "list", given |-> arguments.given,
                             filenames |-> arguments.filenames]]
    /\ UNCHANGED <<drive, images, fetchOutcome, rows, s3, calls, notFound>>
    /\ UNCHANGED <<manager, maxWidth, buttonsVars, mouseVars, gdocVars>>

\* the answer of Drive inside the fetchImageMetadata of a syncImagesToS3:
\* this.images is assigned, or the error is logged; syncImagesToS3 has yet
\* to resume
SyncImagesToS3Listed(b) ==
    /\ syncs[b].pc = "list"
    /\ \E res \in {drive, ListFailure} :
           LET r == fetchImageMetadata(res, images)
           IN /\ images' = r.images
              /\ fetchOutcome' =
                     [settled |-> r.settled, logged |-> r.logged,
                      cause |-> r.cause]
    /\ syncs' = [syncs EXCEPT ![b].pc = "map"]
    /\ UNCHANGED <<drive, rows, s3, calls, notFound>>
    /\ UNCHANGED <<manager, maxWidth, buttonsVars, mouseVars, gdocVars>>

\* syncImagesToS3 resumes after its await: filenames.map reads this.images
\* as it is now, calls syncImage for every file name that has metadata and
\* logs the other file names; without an argument filenames.map throws a
\* TypeError and the promise of syncImagesToS3 rejects
SyncImagesToS3Map(b) ==
    /\ syncs[b].pc = "map"
    /\ IF syncs[b].given
       THEN /\ calls' =
                   [calls EXCEPT
                       ![b] = StartedCalls(syncs[b].filenames, images)]
            /\ notFound' =
                   [notFound EXCEPT
                       ![b] = {syncs[b].filenames[i] : i \in
                                  {j \in DOMAIN syncs[b].filenames :
                                      Lookup(images, syncs[b].filenames[j])
                                          = {}}}]
            /\ syncs' = [syncs EXCEPT ![b].pc = "all"]
       ELSE /\ syncs' = [syncs EXCEPT ![b].pc = "threw"]
            /\ UNCHANGED <<calls, notFound>>
    /\ UNCHANGED <<drive, images, fetchOutcome, rows, s3>>
    /\ UNCHANGED <<manager, maxWidth, buttonsVars, mouseVars, gdocVars>>

\* The call of syncImagesToS3 is over: its promise has settled, rejected by
\* the TypeError or by the first syncImage that rejected, or resolved by
\* Promise.all, and the syncImage calls that it started have all returned.
SyncImagesToS3Settled(b) ==
    /\ syncs[b].pc \in {"all", "threw"}
    /\ \A i \in DOMAIN calls[b] : calls[b][i].pc = "done"
    /\ syncs' = [syncs EXCEPT ![b] = NoSync]
    /\ calls' = [calls EXCEPT ![b] = <<>>]
    /\ notFound' = [notFound EXCEPT ![b] = {}]
    /\ UNCHANGED <<drive, images, fetchOutcome, rows, s3>>
    /\ UNCHANGED <<manager, maxWidth, buttonsVars, mouseVars, gdocVars>>

\* syncImage that saves a new Image before the upload
SyncImageFind_SaveFirst(b, i) ==
    /\ i \in DOMAIN calls[b]
    /\ calls[b][i].pc = "find"
    /\ LET fresh == Image_create(calls[b][i].metadata)
           stored == findOneBy(rows, fresh.googleId)
       IN IF stored # NoRow
          THEN /\ IF Differs(stored, fresh)
                  THEN calls' =
                           [calls EXCEPT ![b][i].pc = "drive",
                                         ![b][i].stored = stored]
                  ELSE calls' =
                           [calls EXCEPT ![b][i].pc = "done",
                                         ![b][i].stored = stored,
                                         ![b][i].settled = "resolved",
                                         ![b][i].value = stored.id]
               /\ rows' = rows
          ELSE /\ rows' = Append(rows, [fresh EXCEPT !.id = Len(rows) + 1])
               /\ calls' = [calls EXCEPT ![b][i].pc = "drive",
                                         ![b][i].saved = TRUE]
    /\ UNCHANGED <<drive, images, fetchOutcome, s3, notFound, syncs>>
    /\ UNCHANGED <<manager, maxWidth, buttonsVars, mouseVars, gdocVars>>

\* Image.syncImage at the answer of findOneBy, with the test that follows:
\* an Image that is stored and up to date is returned, in the other cases
\* fetchFromDriveAndUploadToS3 is called and sends its request to Drive.
\* findOneBy is awaited before the try block: when the query fails the
\* promise of syncImage rejects and nothing is logged.
SyncImageFind(b, i) ==
    /\ i \in DOMAIN calls[b]
    /\ calls[b][i].pc = "find"
    /\ \E dbOk \in BOOLEAN :
           LET fresh == Image_create(calls[b][i].metadata)
               stored == findOneBy(rows, fresh.googleId)
           IN IF ~dbOk
              THEN calls' = [calls EXCEPT ![b][i].pc = "done",
                                          ![b][i].settled = "rejected"]
              ELSE IF stored # NoRow
                   THEN IF Differs(stored, fresh)
                        THEN calls' =
                                 [calls EXCEPT ![b][i].pc = "drive",
                                               ![b][i].found = TRUE,
                                               ![b][i].stored = stored]
                        ELSE calls' =
                                 [calls EXCEPT ![b][i].pc = "done",
                                               ![b][i].found = TRUE,
                                               ![b][i].stored = stored,
                                               ![b][i].settled = "resolved",
                                               ![b][i].value = stored.id]
                   ELSE calls' = [calls EXCEPT ![b][i].pc = "drive",
                                               ![b][i].found = TRUE]
    /\ UNCHANGED <<drive, images, fetchOutcome, rows, s3, notFound, syncs>>
    /\ UNCHANGED <<manager, maxWidth, buttonsVars, mouseVars, gdocVars>>

\* fetchFromDriveAndUploadToS3 at the answer of driveClient.files.get: the
\* MIME type is looked up and the file is sent to S3; an error of Drive or
\* an unsupported extension is thrown, caught by syncImage and logged, and
\* syncImage returns undefined
SyncImageDrive(b, i) ==
    /\ i \in DOMAIN calls[b]
    /\ calls[b][i].pc = "drive"
    /\ \E driveOk \in BOOLEAN :
           LET fresh == Image_create(calls[b][i].metadata)
               outcome == fetchFromDriveAndUploadToS3(fresh, driveOk, TRUE)
           IN IF outcome = "ok"
              THEN calls' = [calls EXCEPT ![b][i].pc = "s3"]
              ELSE calls' = [calls EXCEPT ![b][i].pc = "done",
                                          ![b][i].upload = outcome,
                                          ![b][i].errorLogged = TRUE,
                                          ![b][i].settled = "resolved",
                                          ![b][i].value = 0]
    /\ UNCHANGED <<drive, images, fetchOutcome, rows, s3, notFound, syncs>>
    /\ UNCHANGED <<manager, maxWidth, buttonsVars, mouseVars, gdocVars>>

\* fetchFromDriveAndUploadToS3 at the answer of s3Client.send: the file is in
\* the bucket and syncImage goes on with the save, or the error is caught by
\* syncImage and logged and syncImage returns undefined
SyncImageS3(b, i) ==
    /\ i \in DOMAIN calls[b]
    /\ calls[b][i].pc = "s3"
    /\ \E s3Ok \in BOOLEAN :
           LET fresh == Image_create(calls[b][i].metadata)
               outcome == fetchFromDriveAndUploadToS3(fresh, TRUE, s3Ok)
           IN IF outcome = "ok"
              THEN /\ s3' = s3 \cup {fresh.filename}
                   /\ calls' = [calls EXCEPT ![b][i].pc = "save",
                                             ![b][i].upload = "ok"]
              ELSE /\ s3' = s3
                   /\ calls' = [calls EXCEPT ![b][i].pc = "done",
                                             ![b][i].upload = outcome,
                                             ![b][i].errorLogged = TRUE,
                                             ![b][i].settled = "resolved",
                                             ![b][i].value = 0]
    /\ UNCHANGED <<drive, images, fetchOutcome, rows, notFound, syncs>>
    /\ UNCHANGED <<manager, maxWidth, buttonsVars, mouseVars, gdocVars>>

\* The answer of the database to stored.save() or fresh.save().  With a
\* stored Image, await stored.save() and return stored: its row gets the
\* three new values, and an error is caught and logged.  Without one, return
\* fresh.save(): a row is inserted with the next id; the promise is returned
\* without await, so that an error is not caught: the promise of syncImage
\* rejects and nothing is logged.
SyncImageSave(b, i) ==
    /\ i \in DOMAIN calls[b]
    /\ calls[b][i].pc = "save"
    /\ \E dbOk \in BOOLEAN :
           LET fresh == Image_create(calls[b][i].metadata)
               stored == calls[b][i].stored
           IN IF stored # NoRow
              THEN IF dbOk
                   THEN /\ rows' =
                               [rows EXCEPT
                                   ![stored.id] =
                                       [stored EXCEPT
                                           !.updatedAt = fresh.updatedAt,
                                           !.defaultAlt = fresh.defaultAlt,
                                           !.originalWidth =
                                               fresh.originalWidth]]
                        /\ calls' =
                               [calls EXCEPT ![b][i].pc = "done",
                                             ![b][i].saved = TRUE,
                                             ![b][i].settled = "resolved",
                                             ![b][i].value = stored.id]
                   ELSE /\ rows' = rows
                        /\ calls' =
                               [calls EXCEPT ![b][i].pc = "done",
                                             ![b][i].errorLogged = TRUE,
                                             ![b][i].settled = "resolved",
                                             ![b][i].value = 0]
              ELSE IF dbOk
                   THEN /\ rows' =
                               Append(rows,
                                      [fresh EXCEPT !.id = Len(rows) + 1])
                        /\ calls' =
                               [calls EXCEPT ![b][i].pc = "done",
                                             ![b][i].saved = TRUE,
                                             ![b][i].settled = "resolved",
                                             ![b][i].value = Len(rows) + 1]
                   ELSE /\ rows' = rows
                        /\ calls' =
                               [calls EXCEPT ![b][i].pc = "done",
                                             ![b][i].settled = "rejected"]
    /\ UNCHANGED <<drive, images, fetchOutcome, s3, notFound, syncs>>
    /\ UNCHANGED <<manager, maxWidth, buttonsVars, mouseVars, gdocVars>>

NextImages ==
    \/ DriveEdit
    \/ FetchImageMetadata
    \/ \E b \in Batches : SyncImagesToS3(b)
    \/ \E b \in Batches : SyncImagesToS3Listed(b)
    \/ \E b \in Batches : SyncImagesToS3Map(b)
    \/ \E b \in Batches : SyncImagesToS3Settled(b)
    \/ \E b \in Batches : \E i \in DOMAIN calls[b] : SyncImageFind(b, i)
    \/ \E b \in Batches : \E i \in DOMAIN calls[b] : SyncImageDrive(b, i)
    \/ \E b \in Batches : \E i \in DOMAIN calls[b] : SyncImageS3(b, i)
    \/ \E b \in Batches : \E i \in DOMAIN calls[b] : SyncImageSave(b, i)

SpecImages == Init /\ [][NextImages]_vars

-----------------------------------------------------------------------------
(* Loading and validating a document *)

\* a request calls Gdoc.getGdocFromContentSource(id, contentSource) and the
\* query is sent
GetGdoc ==
    /\ stack = <<>>
    /\ \E id \in GdocIds, source \in ContentSources :
           /\ stack' = <<Frame("getGdocFromContentSource", id, "findOneBy",
                               source, NoGdoc)>>
           /\ request' = [id |-> id, settled |-> "pending"]
    /\ dodLoads' = 0
    /\ dodValidations' = 0
    /\ UNCHANGED <<gdocs, errors>>
    /\ UNCHANGED <<manager, maxWidth, buttonsVars, mouseVars, imageVars>>

\* the DoD document is written to or deleted from the table, by another
\* request, at any moment
EditGdocs ==
    /\ gdocs' \in GdocTables \ {gdocs}
    /\ UNCHANGED <<stack, request, dodLoads, dodValidations, errors>>
    /\ UNCHANGED <<manager, maxWidth, buttonsVars, mouseVars, imageVars>>

\* The answer of Gdoc.findOneBy in getGdocFromContentSource.  Without a
\* document the JsonError goes through every call that awaits this one, none
\* of them has a catch, and so does an error of the database.  With
\* contentSource Gdocs fetchAndEnrichArticle asks Google Docs for the
\* document, else loadLinkedDocuments sends its queries.
GetGdocFound ==
    /\ stack # <<>>
    /\ Top(stack).fn = "getGdocFromContentSource"
    /\ Top(stack).pc = "findOneBy"
    /\ \E dbOk \in BOOLEAN :
           IF ~dbOk \/ Gdoc_findOneBy(gdocs, Top(stack).id) = {}
           THEN /\ stack' = <<>>
                /\ request' = [request EXCEPT !.settled = "rejected"]
                /\ UNCHANGED dodLoads
           ELSE /\ stack' =
                       [stack EXCEPT
                           ![Len(stack)].gdoc =
                               Entity(CHOOSE g \in gdocs :
                                          g.id = Top(stack).id),
                           ![Len(stack)].pc =
                               IF Top(stack).source = "gdocs"
                               THEN "documents.get"
                               ELSE "loadLinkedDocuments"]
                /\ dodLoads' =
                       IF Top(stack).id = GDOCS_DETAILS_ON_DEMAND_ID
                       THEN dodLoads + 1 ELSE dodLoads
                /\ UNCHANGED request
    /\ UNCHANGED <<gdocs, dodValidations, errors>>
    /\ UNCHANGED <<manager, maxWidth, buttonsVars, mouseVars, imageVars>>

\* fetchAndEnrichArticle at the answer of docsClient.documents.get: the
\* document goes to gdocToArchie, or the error rejects the request
GetGdocFetched ==
    /\ stack # <<>>
    /\ Top(stack).fn = "getGdocFromContentSource"
    /\ Top(stack).pc = "documents.get"
    /\ \E docsOk \in BOOLEAN :
           IF docsOk
           THEN /\ stack' = [stack EXCEPT ![Len(stack)].pc = "gdocToArchie"]
                /\ UNCHANGED request
           ELSE /\ stack' = <<>>
                /\ request' = [request EXCEPT !.settled = "rejected"]
    /\ UNCHANGED <<gdocs, dodLoads, dodValidations, errors>>
    /\ UNCHANGED <<manager, maxWidth, buttonsVars, mouseVars, imageVars>>

\* fetchAndEnrichArticle after gdocToArchie: this.content is replaced by the
\* content that Google Docs has, and loadLinkedDocuments sends its queries
GetGdocEnriched ==
    /\ stack # <<>>
    /\ Top(stack).fn = "getGdocFromContentSource"
    /\ Top(stack).pc = "gdocToArchie"
    /\ \E content \in LiveContents(Top(stack).gdoc) :
           stack' =
               [stack EXCEPT
                   ![Len(stack)].gdoc = WithContent(Top(stack).gdoc, content),
                   ![Len(stack)].pc = "loadLinkedDocuments"]
    /\ UNCHANGED <<gdocs, request, dodLoads, dodValidations, errors>>
    /\ UNCHANGED <<manager, maxWidth, buttonsVars, mouseVars, imageVars>>

\* loadLinkedDocuments after its Promise.all: the documents that the links
\* name are the linked documents, or an error of the database rejects the
\* request.  Then loadImageMetadata is called: with a file name to load it
\* calls imageStore.fetchImageMetadata, which asks Drive for its files, and
\* without one it returns.
GetGdocLinked ==
    /\ stack # <<>>
    /\ Top(stack).fn = "getGdocFromContentSource"
    /\ Top(stack).pc = "loadLinkedDocuments"
    /\ \E dbOk \in BOOLEAN :
           IF ~dbOk /\ Top(stack).gdoc.links # {}
           THEN /\ stack' = <<>>
                /\ request' = [request EXCEPT !.settled = "rejected"]
           ELSE LET gdoc ==
                        [Top(stack).gdoc EXCEPT
                            !.linkedDocuments =
                                {g \in gdocs : g.id \in Top(stack).gdoc.links}]
                IN /\ stack' =
                          [stack EXCEPT
                              ![Len(stack)].gdoc = gdoc,
                              ![Len(stack)].pc =
                                  IF filenamesToLoad(gdoc) # {}
                                  THEN "fetchImageMetadata"
                                  ELSE "validate"]
                   /\ UNCHANGED request
    /\ UNCHANGED <<gdocs, dodLoads, dodValidations, errors>>
    /\ UNCHANGED <<manager, maxWidth, buttonsVars, mouseVars, imageVars>>

\* loadImageMetadata at the answer of Drive to imageStore.fetchImageMetadata:
\* imageStore.images is assigned or the error is logged; then
\* imageStore.syncImagesToS3() is called, without an argument, and asks Drive
\* for its files again
GetGdocImagesListed ==
    /\ stack # <<>>
    /\ Top(stack).fn = "getGdocFromContentSource"
    /\ Top(stack).pc = "fetchImageMetadata"
    /\ \E res \in {drive, ListFailure} :
           LET r == fetchImageMetadata(res, images)
           IN /\ images' = r.images
              /\ fetchOutcome' =
                     [settled |-> r.settled, logged |-> r.logged,
                      cause |-> r.cause]
    /\ stack' = [stack EXCEPT ![Len(stack)].pc = "syncImagesToS3"]
    /\ UNCHANGED <<gdocs, request, dodLoads, dodValidations, errors>>
    /\ UNCHANGED <<drive, rows, s3, syncs, calls, notFound>>
    /\ UNCHANGED <<manager, maxWidth, buttonsVars, mouseVars>>

\* loadImageMetadata at the answer of Drive inside syncImagesToS3():
\* imageStore.images is assigned again, filenames.map throws a TypeError
\* (filenames is undefined) and the error goes through every call that
\* awaits this one
GetGdocImagesSynced ==
    /\ stack # <<>>
    /\ Top(stack).fn = "getGdocFromContentSource"
    /\ Top(stack).pc = "syncImagesToS3"
    /\ \E res \in {drive, ListFailure} :
           LET r == fetchImageMetadata(res, images)
           IN /\ images' = r.images
              /\ fetchOutcome' =
                     [settled |-> r.settled, logged |-> r.logged,
                      cause |-> r.cause]
    /\ stack' = <<>>
    /\ request' = [request EXCEPT !.settled = "rejected"]
    /\ UNCHANGED <<gdocs, dodLoads, dodValidations, errors>>
    /\ UNCHANGED <<drive, rows, s3, syncs, calls, notFound>>
    /\ UNCHANGED <<manager, maxWidth, buttonsVars, mouseVars>>

\* await gdoc.validate() in getGdocFromContentSource
GetGdocValidate ==
    /\ stack # <<>>
    /\ Len(stack) < MaxStack
    /\ Top(stack).fn = "getGdocFromContentSource"
    /\ Top(stack).pc = "validate"
    /\ stack' =
           Append([stack EXCEPT ![Len(stack)].pc = "return"],
                  Frame("validate", Top(stack).id, "start", "undefined",
                        Top(stack).gdoc))
    /\ UNCHANGED <<gdocs, request, dodLoads, dodValidations, errors>>
    /\ UNCHANGED <<manager, maxWidth, buttonsVars, mouseVars, imageVars>>

\* validate that loads the DoD document for every document
ValidateStart_NoTest ==
    /\ stack # <<>>
    /\ Len(stack) < MaxStack
    /\ Top(stack).fn = "validate"
    /\ Top(stack).pc = "start"
    /\ stack' =
           Append([stack EXCEPT ![Len(stack)].pc = "dodErrors"],
                  Frame("getGdocFromContentSource",
                        GDOCS_DETAILS_ON_DEMAND_ID, "findOneBy", "undefined",
                        NoGdoc))
    /\ UNCHANGED <<dodValidations, errors>>
    /\ UNCHANGED <<gdocs, request, dodLoads>>
    /\ UNCHANGED <<manager, maxWidth, buttonsVars, mouseVars, imageVars>>

\* validate up to its await: a document that is not the DoD document calls
\* getGdocFromContentSource for the DoD document, the DoD document has no
\* dodErrors, sets its errors and returns
ValidateStart ==
    /\ stack # <<>>
    /\ Len(stack) < MaxStack
    /\ Top(stack).fn = "validate"
    /\ Top(stack).pc = "start"
    /\ IF Top(stack).id # GDOCS_DETAILS_ON_DEMAND_ID
       THEN /\ stack' =
                   Append([stack EXCEPT ![Len(stack)].pc = "dodErrors"],
                          Frame("getGdocFromContentSource",
                                GDOCS_DETAILS_ON_DEMAND_ID, "findOneBy",
                                "undefined", NoGdoc))
            /\ UNCHANGED <<dodValidations, errors>>
       ELSE /\ stack' = Pop(stack)
            /\ dodValidations' = dodValidations + 1
            /\ errors' =
                   [errors EXCEPT
                       ![Top(stack).id] =
                           [filenames |-> filenameErrorsOf(Top(stack).gdoc),
                            links |-> linkErrorsOf(Top(stack).gdoc),
                            details |-> {}]]
    /\ UNCHANGED <<gdocs, request, dodLoads>>
    /\ UNCHANGED <<manager, maxWidth, buttonsVars, mouseVars, imageVars>>

\* validate after its await: the dodErrors are computed with the DoD document
\* that getGdocFromContentSource returned and the errors are set
ValidateDodErrors ==
    /\ stack # <<>>
    /\ Top(stack).fn = "validate"
    /\ Top(stack).pc = "dodErrors"
    /\ Top(stack).detailsGdoc # NoGdoc
    /\ LET gdoc == Top(stack).gdoc
       IN errors' =
              [errors EXCEPT
                  ![gdoc.id] =
                      [filenames |-> filenameErrorsOf(gdoc),
                       links |-> linkErrorsOf(gdoc),
                       details |->
                           dodErrorsOf(gdoc, Top(stack).detailsGdoc)]]
    /\ stack' = Pop(stack)
    /\ dodValidations' =
           IF Top(stack).id = GDOCS_DETAILS_ON_DEMAND_ID
           THEN dodValidations + 1 ELSE dodValidations
    /\ UNCHANGED <<gdocs, request, dodLoads>>
    /\ UNCHANGED <<manager, maxWidth, buttonsVars, mouseVars, imageVars>>

\* return gdoc in getGdocFromContentSource: the validate that awaits the call
\* gets the Gdoc, or the request resolves
GetGdocReturn ==
    /\ stack # <<>>
    /\ Top(stack).fn = "getGdocFromContentSource"
    /\ Top(stack).pc = "return"
    /\ stack' =
           IF Len(stack) = 1 THEN <<>>
           ELSE [Pop(stack) EXCEPT
                    ![Len(stack) - 1].detailsGdoc = Top(stack).gdoc]
    /\ request' =
           IF Len(stack) = 1 THEN [request EXCEPT !.settled = "resolved"]
           ELSE request
    /\ UNCHANGED <<gdocs, dodLoads, dodValidations, errors>>
    /\ UNCHANGED <<manager, maxWidth, buttonsVars, mouseVars, imageVars>>

\* a step of a request that is under way
GdocStep ==
    \/ GetGdocFound
    \/ GetGdocFetched
    \/ GetGdocEnriched
    \/ GetGdocLinked
    \/ GetGdocImagesListed
    \/ GetGdocImagesSynced
    \/ GetGdocValidate
    \/ ValidateStart
    \/ ValidateDodErrors
    \/ GetGdocReturn

NextGdocs ==
    \/ GetGdoc
    \/ EditGdocs
    \/ GetGdocFound
    \/ GetGdocFetched
    \/ GetGdocEnriched
    \/ GetGdocLinked
    \/ GetGdocImagesListed
    \/ GetGdocImagesSynced
    \/ GetGdocValidate
    \/ ValidateStart
    \/ ValidateDodErrors
    \/ GetGdocReturn

SpecGdocs == Init /\ [][NextGdocs]_vars

\* the event loop runs every continuation that is ready, and the database,
\* Google Docs and Drive answer every request
SpecGdocsFair == Init /\ [][NextGdocs]_vars /\ WF_vars(GdocStep)

-----------------------------------------------------------------------------
(* Vocabulary of the properties *)

\* the manager gives a note (a non-empty string)
NotePresent == manager.note # undefined /\ manager.note # <<>>

\* block b is rendered in the area above the action buttons
InTop(b) ==
    LET top == renderTopContent
    IN \E i \in DOMAIN top : \E j \in DOMAIN top[i] : top[i][j] = b

\* block b is rendered in the bottom row, next to the action buttons
InBottom(b) ==
    LET column == renderBottomContent.column
    IN \E j \in DOMAIN column : column[j] = b

\* blocks a and b are rendered on one row of the top area
SameTopRow(a, b) ==
    LET top == renderTopContent
    IN \E i \in DOMAIN top :
           /\ \E j \in DOMAIN top[i] : top[i][j] = a
           /\ \E j \in DOMAIN top[i] : top[i][j] = b

\* the width the layout gives a block
BlockWidth(b) ==
    CASE b = "sources" -> sources.width
      [] b = "note" -> note.width
      [] b = "license" -> licenseAndOriginUrl.width
      [] b = "ActionButtons" -> actionButtons.width
      [] OTHER -> 0

\* the width of the text column of the bottom row: its widest block
BottomColumnWidth ==
    LET column == renderBottomContent.column
    IN MaxOfSeq([j \in DOMAIN column |-> BlockWidth(column[j])])

\* the widths of the two rows that hold more than one block
TopRowFits ==
    SameTopRow("sources", "license") =>
        sources.width + HORIZONTAL_PADDING + licenseAndOriginUrl.width
            <= maxWidth

BottomRowFits ==
    BottomColumnWidth + HORIZONTAL_PADDING + actionButtons.width <= maxWidth

-----------------------------------------------------------------------------
(* Properties *)

\* the action buttons fit with their labels in the width the footer leaves
LabelsFit == widthWithButtonLabels <= actionButtonsMaxWidth

\* the widest word of a text
RECURSIVE WidestWord(_, _)
WidestWord(words, size) ==
    IF words = <<>> THEN 0
    ELSE Max(WordWidth(Head(words), size), WidestWord(Tail(words), size))

\* the least width that wrapping can give a block of the text column: the
\* widest word of Sources or Note, and the License without the URL, wrapped
\* at licenseAndOriginUrlMaxWidth
LeastWidth(b) ==
    CASE b = "sources" -> WidestWord(sourcesText, sourcesFontSize)
      [] b = "note" -> WidestWord(markdownNoteText, fontSize)
      [] b = "license" ->
             TextWrap(constructLicenseAndOriginUrlText(undefined, licenseText),
                      licenseAndOriginUrlMaxWidth, fontSize, lineHeight).width
      [] OTHER -> 0

\* every block of the text column has a least width that fits next to the
\* action buttons as they are drawn
ColumnCanFit ==
    LET column == renderBottomContent.column
    IN MaxOfSeq([j \in DOMAIN column |-> LeastWidth(column[j])])
           + HORIZONTAL_PADDING + actionButtons.width <= maxWidth

\* C1 as stated: in every layout the blocks placed on one row fit in maxWidth:
\* Sources + gap + License on the top row, and the text column + gap +
\* ActionButtons on the bottom row.
C1_RowsFit_AsStated == TopRowFits /\ BottomRowFits

\* C1, amended: Sources + gap + License fit in maxWidth whenever the License
\* is placed next to Sources.  The text column + gap + ActionButtons fit in
\* maxWidth whenever the labelled buttons fit in actionButtonsMaxWidth, and,
\* with labels or icon-only, exactly when the widest word of the Sources or
\* Note of the column and the License without the URL each fit in maxWidth
\* next to the gap and the ActionButtons.
C1_RowsFit ==
    /\ TopRowFits
    /\ LabelsFit => BottomRowFits
    /\ BottomRowFits <=> ColumnCanFit

\* four icon-only buttons next to a Sources of ten words or more that is
\* wrapped in the width they leave: the row is exactly maxWidth wide
C1_Witness ==
    /\ ~LabelsFit
    /\ buttonCount = 4
    /\ InBottom("sources")
    /\ Len(manager.sourcesLine) >= 10
    /\ ColumnCanFit
    /\ BottomColumnWidth + HORIZONTAL_PADDING + actionButtons.width = maxWidth

\* a note next to labelled buttons, below Sources and License on one row
C1_WitnessLabelled ==
    /\ LabelsFit
    /\ buttonCount >= 1
    /\ sourcesText # <<>>
    /\ SameTopRow("sources", "license")
    /\ InBottom("note")

\* C2: useFullWidthSources is true exactly when a note is present or the
\* single-line width of the sources text is strictly greater than 2 x maxWidth.
C2_FullWidthSources ==
    useFullWidthSources <=>
        (NotePresent
            \/ forTextWidth(SourcesTextOf(manager.sourcesLine), sourcesFontSize)
                   > 2 * maxWidth)

\* no note, and a sources text exactly 2 x maxWidth wide: not full-width
C2_Witness ==
    /\ ~NotePresent
    /\ manager.sourcesLine # <<>>
    /\ forTextWidth(sourcesText, sourcesFontSize) = 2 * maxWidth
    /\ ~useFullWidthSources
    /\ InBottom("sources")

\* C3: whenever a note is present, Sources is rendered in the top area on a
\* row without the Note, and not in the bottom row.
C3_NoteForcesSourcesFullWidth ==
    NotePresent =>
        /\ useFullWidthSources
        /\ sources.maxWidth = maxWidth
        /\ InTop("sources")
        /\ ~InBottom("sources")
        /\ ~SameTopRow("sources", "note")
        /\ InTop("note") \/ InBottom("note")

\* a note, and a sources text that fits on one line narrower than maxWidth
C3_Witness ==
    /\ NotePresent
    /\ sourcesText # <<>>
    /\ forTextWidth(sourcesText, sourcesFontSize) < maxWidth
    /\ InTop("sources")
    /\ InBottom("note")

\* C4: useFullWidthNote is true exactly when the single-line width of the
\* note text is strictly greater than 2 x maxWidth; a present note is then
\* rendered in the top area, and otherwise in the bottom row.
C4_FullWidthNote ==
    LET wide == forTextWidth(NoteTextOf(manager.note), fontSize) > 2 * maxWidth
    IN /\ useFullWidthNote <=> wide
       /\ NotePresent /\ wide => InTop("note") /\ ~InBottom("note")
       /\ NotePresent /\ ~wide => InBottom("note") /\ ~InTop("note")

\* a note exactly 2 x maxWidth wide, rendered next to the action buttons
C4_Witness ==
    /\ NotePresent
    /\ forTextWidth(noteText, fontSize) = 2 * maxWidth
    /\ InBottom("note")

\* C5: the License is placed next to Sources on the top row if and only if
\* Sources is full-width and sources.width + 8 + license.width <= maxWidth;
\* in every other case it is placed in the bottom row.
C5_LicensePlacement ==
    LET fits == /\ useFullWidthSources
                /\ sources.width + 8 + licenseAndOriginUrl.width <= maxWidth
    IN /\ SameTopRow("sources", "license") <=> fits
       /\ InTop("license") <=> fits
       /\ InBottom("license") <=> ~fits

\* Sources, gap and License fill the top row exactly
C5_Witness ==
    /\ sourcesText # <<>>
    /\ sources.width + 8 + licenseAndOriginUrl.width = maxWidth
    /\ SameTopRow("sources", "license")

\* C6: the wrapping width of Sources and of Note is maxWidth when the block
\* is full-width, and otherwise maxWidth - actionButtons.width - 8, unclamped.
C6_WrappingWidth ==
    /\ sources.maxWidth =
           IF useFullWidthSources THEN maxWidth
           ELSE maxWidth - actionButtons.width - 8
    /\ note.maxWidth =
           IF useFullWidthNote THEN maxWidth
           ELSE maxWidth - actionButtons.width - 8

\* Sources next to action buttons that leave it a negative width
C6_Witness ==
    /\ sourcesText # <<>>
    /\ ~useFullWidthSources
    /\ sources.maxWidth < 0
    /\ sources.maxWidth = maxWidth - actionButtons.width - 8

\* the origin URL is an http(s) URL with a host name
ValidOriginUrl ==
    /\ toLowerCase(originUrlWithProtocol.protocol) \in {"http", "https"}
    /\ originUrlWithProtocol.hostname > 0

\* `<origin URL> | <license text>`
UrlAndLicense ==
    LET url == originUrlWithProtocol
    IN <<url.hostname + url.pathname - (IF url.trailingSlash THEN 1 ELSE 0), 1>>
           \o LicenseTextOf(manager.hasOWIDLogo)

\* C7: the license line is `<origin URL> | <license text>` when the origin
\* URL is valid and the width of that string plus 8 is at most
\* maxWidth - actionButtons.width, and `<license text>` alone otherwise.
C7_LicenseLine ==
    LET shown == /\ ValidOriginUrl
                 /\ forTextWidth(UrlAndLicense, fontSize) + 8
                        <= maxWidth - actionButtons.width
        line == IF shown THEN UrlAndLicense
                ELSE LicenseTextOf(manager.hasOWIDLogo)
    IN /\ licenseAndOriginUrlText = line
       /\ Footer_renderLicense.text = line
       /\ licenseAndOriginUrl.text = line

\* the URL and the license fill the width left by the action buttons exactly
C7_Witness ==
    /\ manager.originUrlWithProtocol = GrapherUrl
    /\ forTextWidth(UrlAndLicense, fontSize) + 8 = maxWidth - actionButtons.width
    /\ licenseAndOriginUrlText = UrlAndLicense

\* The height of the footer from the heights of its blocks: the full-width
\* Sources and Note stacked with one gap between the two and, when there is
\* one of them, a gap of gapBelow below the last; then the higher of the
\* action buttons and the text column, which holds the Sources or Note that
\* is not full-width, the License that is not next to Sources, and one gap
\* between the two.  Heights are numbers of lines times the line's height.
HeightOfBlocks(gapBelow) ==
    LET gap == Px(4)
        sourcesHeight ==
            Len(sources.htmlLines) * sourcesFontSize * lineHeight
        noteHeight == Len(note.htmlLines) * fontSize * lineHeight
        licenseHeight ==
            Len(licenseAndOriginUrl.htmlLines) * fontSize * lineHeight
        fullSources == useFullWidthSources
        wideNote == useFullWidthNote
        fullNote == NotePresent /\ wideNote
        bottomNote == NotePresent /\ ~wideNote
        licenseBelow == ~showLicenseNextToSources
        top == (IF fullSources THEN sourcesHeight ELSE 0)
                   + (IF fullSources /\ fullNote THEN gap ELSE 0)
                   + (IF fullNote THEN noteHeight ELSE 0)
                   + (IF fullSources \/ fullNote THEN gapBelow ELSE 0)
        text == (IF ~fullSources THEN sourcesHeight
                 ELSE IF bottomNote THEN noteHeight ELSE 0)
                   + (IF (~fullSources \/ bottomNote) /\ licenseBelow
                      THEN gap ELSE 0)
                   + (IF licenseBelow THEN licenseHeight ELSE 0)
    IN top + Max(text, Px(32))

\* C8 as stated: height = top-row height + bottom-row height, the top-row
\* height being the heights of the full-width Sources and Note with one gap
\* of 4 between each two stacked blocks (0 when neither is full-width), the
\* bottom-row height the maximum of the text column and the ActionButtons.
C8_Height_AsStated == height = HeightOfBlocks(0)

\* C8, amended: the top-row height also holds one more gap of 4, below the
\* last full-width block, whenever one of the two blocks is full-width.
C8_Height == height = HeightOfBlocks(Px(4))

\* Sources and Note stacked above a License taller than the action buttons
C8_Witness ==
    /\ sourcesText # <<>>
    /\ NotePresent
    /\ useFullWidthNote
    /\ InBottom("license")
    /\ topContentHeight = sources.height + Px(4) + note.height + Px(4)

\* the height of a rendered block
RenderedBlockHeight(b) ==
    CASE b = "sources" -> Footer_renderSources.height
      [] b = "note" -> Footer_renderNote.height
      [] b = "license" -> Footer_renderLicense.height
      [] b = "space" -> Footer_renderVerticalSpace
      [] b = "ActionButtons" -> ActionButtons_height
      [] OTHER -> 0

RECURSIVE SumOfSeq(_)
SumOfSeq(s) == IF s = <<>> THEN 0 ELSE Head(s) + SumOfSeq(Tail(s))

\* the height of what renderTopContent renders: its rows stacked, a row as
\* high as its highest block
RenderedTopHeight ==
    LET top == renderTopContent
    IN SumOfSeq([i \in DOMAIN top |->
                     MaxOfSeq([j \in DOMAIN top[i] |->
                                   RenderedBlockHeight(top[i][j])])])

\* the height of what renderBottomContent renders: the stacked blocks of the
\* text column, or the action buttons when they are higher
RenderedBottomHeight ==
    LET column == renderBottomContent.column
    IN Max(SumOfSeq([j \in DOMAIN column |-> RenderedBlockHeight(column[j])]),
           ActionButtons_height)

\* C9: the height the footer reports equals the height of what it renders,
\* in the top area and in the bottom row.
C9_HeightMatchesRender ==
    /\ topContentHeight = RenderedTopHeight
    /\ bottomContentHeight = RenderedBottomHeight

\* C10: with an empty sources text and an empty note text (and maxWidth > 0)
\* the top-row height is 0.
C10_EmptyTextsNoTopRow ==
    (manager.sourcesLine = <<>> /\ ~NotePresent /\ maxWidth > 0) =>
        /\ topContentHeight = 0
        /\ renderTopContent = <<>>

\* no sources line and an empty note
C10_Witness ==
    /\ manager.sourcesLine = <<>>
    /\ manager.note = <<>>
    /\ topContentHeight = 0

-----------------------------------------------------------------------------
(* Empty blocks *)

\* the height of the footer laid out without a Sources block: the note, if
\* there is one, above or next to the action buttons, the license below it
HeightWithoutSources ==
    LET noteTop == hasNote /\ useFullWidthNote
        noteBottom == hasNote /\ ~useFullWidthNote
        noteHeight == note.height
    IN (IF noteTop THEN noteHeight + Px(verticalPadding) ELSE 0)
           + Max((IF noteBottom THEN noteHeight + Px(verticalPadding) ELSE 0)
                     + licenseAndOriginUrl.height,
                 actionButtons.height)

\* C11: an empty Sources or Note text adds no height and no vertical gap:
\* with an empty sources text, Footer.height is the height of the footer laid
\* out without a Sources block (an empty note is no note: hasNote is false)
C11_EmptyBlockAddsNothing ==
    /\ manager.note = <<>> => ~hasNote
    /\ sourcesText = <<>> => height = HeightWithoutSources

-----------------------------------------------------------------------------
(* Alignment of the bottom row *)

\* C12: the bottom row is centred against the action buttons exactly when
\* its text column holds only the license, or only a note of at most two
\* lines; otherwise it is aligned to the bottom edge
C12_BottomAlignment ==
    LET bottom == renderBottomContent
        centred ==
            \/ bottom.column = <<"license">>
            \/ /\ bottom.column = <<"note">>
               /\ Len(Footer_renderNote.htmlLines) <= 2
    IN /\ bottom.alignItems \in {"center", "flex-end"}
       /\ bottom.alignItems = "center" <=> centred

\* a lone note of two lines, centred
C12_Witness ==
    LET bottom == renderBottomContent
    IN /\ bottom.column = <<"note">>
       /\ Len(Footer_renderNote.htmlLines) = 2
       /\ bottom.alignItems = "center"

\* a lone note of three lines or more, at the bottom edge
C12_LongNoteAtBottomEdge ==
    LET bottom == renderBottomContent
    IN /\ bottom.column = <<"note">>
       /\ Len(Footer_renderNote.htmlLines) > 2
       /\ bottom.alignItems = "flex-end"

-----------------------------------------------------------------------------
(* Labels of the action buttons *)

\* what ActionButtons.render() shows for the current props
RenderedButtons == ActionButtons_render(buttonsProps).buttons

\* every rendered button has its label
Labelled == \A i \in DOMAIN RenderedButtons : RenderedButtons[i].hasLabel

\* every rendered button but "Explore the data" is an icon without label
IconOnly ==
    \A i \in DOMAIN RenderedButtons :
        RenderedButtons[i].label # LabelExploreTheData
            => ~RenderedButtons[i].hasLabel

\* the labelled buttons fit into the available width
FitsAvailableWidth ==
    widthWithButtonLabels <= ActionButtons_availableWidth(buttonsProps)

\* C13 as stated, with a threshold of one third of the container width
C13_LabelRule_AsStated ==
    LET under == 3 * widthWithButtonLabels
                     < ActionButtons_maxWidth(buttonsProps)
    IN IF FitsAvailableWidth \/ under THEN Labelled ELSE IconOnly

\* C13: the buttons show their labels if the total labelled width fits in the
\* available width, and otherwise still show them if it is under 0.33 times
\* the container width; in all remaining cases the buttons are icon-only
C13_LabelRule ==
    LET under == 100 * widthWithButtonLabels
                     < 33 * ActionButtons_maxWidth(buttonsProps)
    IN /\ (FitsAvailableWidth \/ under) <=> showButtonLabels(buttonsProps)
       /\ IF FitsAvailableWidth \/ under THEN Labelled ELSE IconOnly

\* labels shown by the second rule alone
C13_Witness ==
    /\ buttonCount >= 2
    /\ ~FitsAvailableWidth
    /\ 100 * widthWithButtonLabels < 33 * ActionButtons_maxWidth(buttonsProps)
    /\ Labelled

\* C14 as stated: four buttons and not enough slot space; an inclusive
\* boundary at 0.333 * maxWidth
C14_Boundary_AsStated ==
    LET w == widthWithButtonLabels
        mw == ActionButtons_maxWidth(buttonsProps)
    IN (buttonCount = 4 /\ ~FitsAvailableWidth)
           => /\ 1000 * w <= 333 * mw => Labelled
              /\ 1000 * w >= 334 * mw => IconOnly /\ ~Labelled

\* C14: with four buttons and not enough slot space the labels are shown
\* exactly when the combined labelled width is less than 0.33 * maxWidth; at
\* 0.333 * maxWidth and at 0.334 * maxWidth the buttons are icon-only, the
\* "Explore the data" button keeping its label and its labelled width
C14_Boundary ==
    LET w == widthWithButtonLabels
        mw == ActionButtons_maxWidth(buttonsProps)
        last == RenderedButtons[Len(RenderedButtons)]
    IN (buttonCount = 4 /\ ~FitsAvailableWidth)
           => /\ Labelled <=> 100 * w < 33 * mw
              /\ 100 * w >= 33 * mw
                     => /\ IconOnly
                        /\ ~RenderedButtons[1].hasLabel
                        /\ last.label = LabelExploreTheData
                        /\ last.hasLabel
                        /\ last.width = exploreTheDataButtonWithLabelWidth

\* four buttons of a combined labelled width between 0.33 and 0.333 of
\* maxWidth, icon-only
C14_Witness ==
    LET w == widthWithButtonLabels
        mw == ActionButtons_maxWidth(buttonsProps)
    IN /\ buttonCount = 4
       /\ ~FitsAvailableWidth
       /\ 100 * w >= 33 * mw
       /\ 1000 * w <= 333 * mw
       /\ IconOnly /\ ~Labelled

\* C15: whenever the "Explore the data" button is present it is rendered with
\* its label and at its labelled width, whatever showButtonLabels is and
\* however narrow the available width; in icon-only mode every other shown
\* button is 32 wide
C15_ExploreKeepsLabel ==
    LET buttons == RenderedButtons
    IN /\ hasExploreTheDataButton
              => /\ buttons # <<>>
                 /\ buttons[Len(buttons)] =
                        [label |-> LabelExploreTheData,
                         width |-> exploreTheDataButtonWithLabelWidth,
                         hasLabel |-> TRUE]
       /\ ~hasExploreTheDataButton
              => \A i \in DOMAIN buttons :
                     buttons[i].label # LabelExploreTheData
       /\ ~showButtonLabels(buttonsProps)
              => \A i \in DOMAIN buttons :
                     buttons[i].label # LabelExploreTheData
                         => /\ buttons[i].width = 32
                            /\ ~buttons[i].hasLabel

\* icon-only buttons next to a labelled "Explore the data", with no room
C15_Witness ==
    /\ hasExploreTheDataButton
    /\ buttonCount >= 3
    /\ ~showButtonLabels(buttonsProps)
    /\ ActionButtons_availableWidth(buttonsProps) = 0
    /\ RenderedButtons[1].width = 32
    /\ RenderedButtons[Len(RenderedButtons)].hasLabel

\* the widths of the buttons, as the per-button getters give them
ButtonWidths ==
    downloadButtonWidth(buttonsProps) + shareButtonWidth(buttonsProps)
        + enterFullScreenButtonWidth(buttonsProps) + exploreTheDataButtonWidth

\* C16: for every combination of shown buttons, with labels and icon-only,
\* ActionButtons.width is the sum of the widths of the shown buttons plus
\* (count - 1) * 8; the rendered <li> elements have these widths
C16_WidthIsSumOfButtons ==
    LET buttons == RenderedButtons
    IN /\ ActionButtons_width(buttonsProps)
              = ButtonWidths + (buttonCount - 1) * 8
       /\ Len(buttons) = buttonCount
       /\ SumOfSeq([i \in DOMAIN buttons |-> buttons[i].width]) = ButtonWidths

\* icon-only mode with "Explore the data" and two or more other buttons
C16_Witness ==
    /\ hasExploreTheDataButton
    /\ buttonCount >= 3
    /\ ~showButtonLabels(buttonsProps)
    /\ ActionButtons_width(buttonsProps)
           = exploreTheDataButtonWithLabelWidth + (buttonCount - 1) * 40

-----------------------------------------------------------------------------
(* The tooltip of the license *)

\* a mousemove event that the mounted Footer handles
HandledMouseMove == MouseMove /\ lifecycle = "mounted"

\* the pointer is over the .cclogo element after the step
OverLicense == manager.hasOWIDLogo /\ pointer'.overLicense

\* C18: after every mousemove event handled by a mounted Footer,
\* tooltipTarget is undefined when the pointer is not over the license
\* element (or there is none), and it is the position of this event relative
\* to the Grapher container when the pointer is over it and the container is
\* found; a defined tooltipTarget implies the pointer is over the element
C18_TooltipFollowsPointer ==
    [][HandledMouseMove =>
           /\ ~OverLicense => tooltipTarget' = undefined
           /\ (OverLicense /\ grapher # undefined)
                  => tooltipTarget' =
                         <<pointer'.clientX - grapher[1],
                           pointer'.clientY - grapher[2]>>
           /\ tooltipTarget' # undefined => OverLicense]_vars

\* the tooltip at the position of the last event, which was not the first
\* one over the license
C18_Witness ==
    /\ lifecycle = "mounted"
    /\ manager.hasOWIDLogo /\ pointer.overLicense
    /\ grapher = GrapherRect
    /\ pointer.clientX = MaxPointer /\ pointer.clientY = MaxPointer
    /\ tooltipTarget = <<MaxPointer - GrapherRect[1], MaxPointer - GrapherRect[2]>>

\* C19: when the pointer is over the license element and no
\* .GrapherComponent ancestor is found, onMouseMove writes a console error,
\* throws nothing and leaves tooltipTarget as it was
C19_MissingGrapherOnlyLogs ==
    [][(HandledMouseMove /\ OverLicense /\ grapher = undefined)
           => /\ tooltipTarget' = tooltipTarget
              /\ uncaught' = uncaught
              /\ uncaught' = {}
              /\ console' = console \cup {"Grapher was falsy"}]_vars

\* a tooltip kept from an earlier event, the pointer now elsewhere over the
\* license and no Grapher found
C19_Witness ==
    /\ lifecycle = "mounted"
    /\ manager.hasOWIDLogo /\ pointer.overLicense
    /\ grapher = undefined
    /\ "Grapher was falsy" \in console
    /\ uncaught = {}
    /\ tooltipTarget # undefined
    /\ tooltipTarget # getRelativeMouse(GrapherRect, pointer)

\* C20: the mousemove listener is registered exactly while the component is
\* mounted, and no mousemove before the mount or after the unmount changes
\* tooltipTarget or runs the handler
C20_ListenerWhileMounted ==
    /\ [](("onMouseMove" \in listeners) <=> lifecycle = "mounted")
    /\ [][(MouseMove /\ lifecycle # "mounted")
              => UNCHANGED <<tooltipTarget, console, uncaught>>]_vars

\* after the unmount the pointer left the license and the tooltip target
\* stayed
C20_Witness ==
    /\ lifecycle = "unmounted"
    /\ listeners = {}
    /\ ~pointer.overLicense
    /\ tooltipTarget # undefined
    /\ uncaught = {}

-----------------------------------------------------------------------------
(* Width of the action buttons *)

\* C26: ActionButtons.width is non-negative for every combination of shown
\* and hidden buttons, also when all four buttons are hidden
C26_WidthNonNegative == ActionButtons_width(buttonsProps) >= 0

\* with a button or more the width is that of one icon-only button at least
C26_WidthWithButtons ==
    buttonCount >= 1
        => ActionButtons_width(buttonsProps) >= BUTTON_WIDTH_ICON_ONLY

\* the props Footer gives to its ActionButtons: maxWidth and no
\* availableWidth
FooterButtonsProps == renderBottomContent.buttons

\* showButtonLabels is true by the rule of 0.33 * maxWidth alone
LabelsByOneThirdRule ==
    LET props == FooterButtonsProps
    IN /\ showButtonLabels(props)
       /\ widthWithButtonLabels > ActionButtons_availableWidth(props)

\* C27: an ActionButtons built by Footer has no availableWidth prop, so its
\* availableWidth is its maxWidth, and for a maxWidth >= 0 showButtonLabels
\* is true exactly when widthWithButtonLabels <= maxWidth; the rule of one
\* third never turns the labels on in a Footer layout
C27_OneThirdRuleUnused ==
    LET props == FooterButtonsProps
        mw == ActionButtons_maxWidth(props)
    IN /\ props = [maxWidth |-> actionButtonsMaxWidth]
       /\ ActionButtons_availableWidth(props) = mw
       /\ mw >= 0 => (showButtonLabels(props) <=> widthWithButtonLabels <= mw)
       /\ ~LabelsByOneThirdRule

\* the part of C27 for a maxWidth >= 0, and for any maxWidth with a button
C27_OneThirdRuleUnusedWithButtons ==
    LET props == FooterButtonsProps
        mw == ActionButtons_maxWidth(props)
    IN /\ ActionButtons_availableWidth(props) = mw
       /\ (mw >= 0 \/ buttonCount >= 1)
              => /\ showButtonLabels(props) <=> widthWithButtonLabels <= mw
                 /\ ~LabelsByOneThirdRule

(* Every block is rendered in one place *)
\* the number of times a block is in a sequence of rendered elements
RECURSIVE CountIn(_, _)
CountIn(block, elements) ==
    IF elements = <<>> THEN 0
    ELSE (IF Head(elements) = block THEN 1 ELSE 0)
             + CountIn(block, Tail(elements))

\* the number of times a block is rendered in the top area, a sequence of rows
RECURSIVE CountInRows(_, _)
CountInRows(block, topRows) ==
    IF topRows = <<>> THEN 0
    ELSE CountIn(block, Head(topRows)) + CountInRows(block, Tail(topRows))

TimesInTop(block) == CountInRows(block, renderTopContent)

TimesInBottom(block) == CountIn(block, renderBottomContent.column)

\* C28: Sources and License are rendered once each, in the top area or in the
\* bottom row; showLicenseNextToSources implies that Sources is in the top
\* area; Note is rendered once if a note is present and not at all otherwise
C28_EachBlockOnce ==
    LET top == renderTopContent
        bottom == renderBottomContent.column
        times(block) == CountInRows(block, top) + CountIn(block, bottom)
    IN /\ times("sources") = 1
       /\ times("license") = 1
       /\ showLicenseNextToSources => CountInRows("sources", top) = 1
       /\ times("note") = (IF hasNote THEN 1 ELSE 0)

\* License next to Sources in the top area and a note in the bottom row
C28_Witness ==
    /\ showLicenseNextToSources
    /\ TimesInTop("license") = 1
    /\ TimesInTop("sources") = 1
    /\ TimesInBottom("note") = 1
    /\ TimesInBottom("license") = 0

\* a full-width note in the top area, below Sources, and the License alone
\* in the bottom row
C28_WitnessNoteOnTop ==
    /\ TimesInTop("sources") = 1
    /\ TimesInTop("note") = 1
    /\ TimesInBottom("note") = 0
    /\ TimesInBottom("license") = 1

-----------------------------------------------------------------------------
(* StaticFooter, the footer of the static export *)

\* `**Data source:** ${sourcesLine}`, or the empty string
StaticFooter_sourcesText ==
    IF manager.sourcesLine # <<>> THEN <<4, 7>> \o manager.sourcesLine
    ELSE <<>>

StaticFooter_sourcesFontSize == fontSize

StaticFooter_sourcesMaxWidth == maxWidth

StaticFooter_noteMaxWidth == maxWidth

StaticFooter_licenseAndOriginUrlMaxWidth == maxWidth

StaticFooter_finalUrlText ==
    IF correctedUrlText = undefined \/ correctedUrlText = <<>>
    THEN undefined
    ELSE LET licenseAndOriginUrlWidth ==
                 forTextWidth(
                     constructLicenseAndOriginUrlText(correctedUrlText,
                                                      licenseText),
                     fontSize)
         IN IF licenseAndOriginUrlWidth > maxWidth
            THEN undefined
            ELSE correctedUrlText

\* [originUrlSvg, licenseSvg].join(" | "), or licenseSvg alone: the words
\* that are left when the <a> tags are taken away (rawHtml)
StaticFooter_licenseAndOriginUrlText ==
    IF StaticFooter_finalUrlText = undefined
           \/ StaticFooter_finalUrlText = <<>>
    THEN licenseText
    ELSE StaticFooter_finalUrlText \o <<1>> \o licenseText

StaticFooter_sources ==
    MarkdownTextWrap(StaticFooter_sourcesText, StaticFooter_sourcesMaxWidth,
                     StaticFooter_sourcesFontSize, lineHeight)

StaticFooter_note ==
    MarkdownTextWrap(markdownNoteText, StaticFooter_noteMaxWidth, fontSize,
                     lineHeight)

StaticFooter_licenseAndOriginUrl ==
    TextWrap(StaticFooter_licenseAndOriginUrlText,
             StaticFooter_licenseAndOriginUrlMaxWidth, fontSize, lineHeight)

StaticFooter_showLicenseNextToSources ==
    maxWidth - StaticFooter_sources.width - HORIZONTAL_PADDING
        > StaticFooter_licenseAndOriginUrl.width

StaticFooter_height ==
    StaticFooter_sources.height
        + (IF StaticFooter_note.height # 0
           THEN StaticFooter_note.height + Px(verticalPadding) ELSE 0)
        + (IF StaticFooter_showLicenseNextToSources THEN 0
           ELSE StaticFooter_licenseAndOriginUrl.height + Px(verticalPadding))

\* The blocks StaticFooter.render draws, each with the place of its top left
\* corner and its height; y and height in tenths of a pixel.
StaticFooter_render(targetX, targetY) ==
    LET s == StaticFooter_sources
        n == StaticFooter_note
        l == StaticFooter_licenseAndOriginUrl
    IN << [block |-> "sources", x |-> targetX, y |-> targetY,
           height |-> s.height],
          [block |-> "note", x |-> targetX,
           y |-> targetY + s.height + Px(verticalPadding),
           height |-> n.height],
          IF StaticFooter_showLicenseNextToSources
          THEN [block |-> "license", x |-> targetX + maxWidth - l.width,
                y |-> targetY, height |-> l.height]
          ELSE [block |-> "license", x |-> targetX,
                y |-> targetY + s.height
                          + (IF n.height # 0
                             THEN n.height + Px(verticalPadding) ELSE 0)
                          + Px(verticalPadding),
                height |-> l.height] >>

\* the targetY props of the model, in tenths of a pixel
TargetYs == {0, Px(50)}

\* the blocks of a rendering in which there is something to see
DrawnBlocks(rendering) ==
    {rendering[i] : i \in {j \in DOMAIN rendering : rendering[j].height > 0}}

\* C29: StaticFooter.height is at least the distance from targetY to the
\* bottom edge of every block that StaticFooter.render draws, also for an
\* empty sources text with the License on the first row
C29_HeightCoversDrawnBlocks ==
    LET h == StaticFooter_height
    IN \A targetY \in TargetYs :
           \A b \in DrawnBlocks(StaticFooter_render(0, targetY)) :
               b.y + b.height - targetY <= h

\* with a sources text the height covers every drawn block
C29_HeightCoversWithSources ==
    LET h == StaticFooter_height
    IN StaticFooter_sourcesText # <<>>
           => \A targetY \in TargetYs :
                  \A b \in DrawnBlocks(StaticFooter_render(0, targetY)) :
                      b.y + b.height - targetY <= h

-----------------------------------------------------------------------------
(* Syncing the images *)

\* the stored Image has the updatedAt, defaultAlt and originalWidth of the
\* metadata of Drive
SameAsDrive(stored, metadata) ==
    /\ stored.updatedAt = metadata.updatedAt
    /\ stored.defaultAlt = metadata.defaultAlt
    /\ stored.originalWidth = metadata.originalWidth

\* the syncImage calls, each named by its slot and its place in the slot
CallIds == UNION {{<<b, i>> : i \in DOMAIN calls[b]} : b \in Batches}

CallOf(k) == calls[k[1]][k[2]]

\* the syncImage calls that have settled
Returned == {k \in CallIds : CallOf(k).pc = "done"}

\* findOneBy, the upload and the save of the call all went well
Synced(c) ==
    /\ c.found
    /\ c.upload = "ok"
    /\ ~c.errorLogged
    /\ c.settled = "resolved"

\* what holds of a call c of syncImage and of the table when c returns
DocumentedCases(c, table) ==
    /\ (c.stored # NoRow /\ SameAsDrive(c.stored, c.metadata))
           => /\ c.upload = "none"
              /\ ~c.saved
              /\ c.settled = "resolved"
              /\ c.value = c.stored.id
    /\ (c.stored # NoRow /\ ~SameAsDrive(c.stored, c.metadata))
           => /\ c.upload # "none"
              /\ Synced(c)
                     => /\ c.saved
                        /\ c.value = c.stored.id
                        /\ SameAsDrive(table[c.stored.id], c.metadata)
                        /\ table[c.stored.id].googleId = c.metadata.googleId
    /\ (c.found /\ c.stored = NoRow)
           => /\ c.upload # "none"
              /\ Synced(c)
                     => /\ c.saved
                        /\ c.value \in DOMAIN table
                        /\ table[c.value]
                               = [Image_create(c.metadata)
                                      EXCEPT !.id = c.value]

\* C21: a syncImage call follows its documented cases; when it returns: with
\* a stored Image that has the three values of Drive nothing was uploaded or
\* saved and the stored Image is returned; with a stored Image that differs
\* the file was uploaded and the row of the stored Image has the new values;
\* without a stored Image the file was uploaded and a new row was saved (the
\* query, the upload and the save having gone well, see C22)
C21_DocumentedCases ==
    [][\A b \in Batches :
           \A i \in DOMAIN calls[b] \cap DOMAIN calls'[b] :
               (calls[b][i].pc # "done" /\ calls'[b][i].pc = "done")
                   => DocumentedCases(calls'[b][i], rows')]_vars

\* a call returned the stored Image as it was, and another call updated a
\* stored Image with a new description and width
C21_Witness ==
    \E k \in Returned :
        /\ CallOf(k).stored # NoRow
        /\ SameAsDrive(CallOf(k).stored, CallOf(k).metadata)
        /\ CallOf(k).value = CallOf(k).stored.id

C21_WitnessUpdated ==
    \E k \in Returned :
        /\ CallOf(k).stored # NoRow
        /\ CallOf(k).stored.updatedAt = CallOf(k).metadata.updatedAt
        /\ CallOf(k).stored.defaultAlt # CallOf(k).metadata.defaultAlt
        /\ Synced(CallOf(k))
        /\ SameAsDrive(rows[CallOf(k).stored.id], CallOf(k).metadata)

C21_WitnessInserted ==
    \E k \in Returned :
        /\ CallOf(k).found
        /\ CallOf(k).stored = NoRow
        /\ Synced(CallOf(k))
        /\ rows[CallOf(k).value].googleId = CallOf(k).metadata.googleId

\* the upload of the call failed
UploadFailed(c) == c.upload \in UploadOutcomes \ {"ok"}

\* C22: syncImage writes to the table only after its upload has succeeded; a
\* call whose upload failed has saved nothing, has logged the error and has
\* resolved to undefined
C22_SavedOnlyAfterUpload ==
    /\ [](\A k \in CallIds :
              /\ CallOf(k).saved => CallOf(k).upload = "ok"
              /\ UploadFailed(CallOf(k))
                     => /\ ~CallOf(k).saved
                        /\ CallOf(k).errorLogged
                        /\ CallOf(k).settled = "resolved"
                        /\ CallOf(k).value = 0)
    /\ [][rows' # rows
              => \E b \in Batches : \E i \in DOMAIN calls[b] :
                     /\ calls[b][i].upload = "ok"
                     /\ calls'[b][i].pc = "done"
                     /\ calls'[b][i].saved]_vars

\* an upload to S3 failed for an Image that is stored, and the row is as it
\* was found
C22_Witness ==
    \E k \in Returned :
        /\ CallOf(k).upload = "s3 error"
        /\ CallOf(k).stored # NoRow
        /\ rows[CallOf(k).stored.id] = CallOf(k).stored

C22_WitnessUnsupported ==
    \E k \in Returned :
        /\ CallOf(k).upload = "unsupported extension"
        /\ CallOf(k).metadata.filename = TeamJpg
        /\ \A j \in DOMAIN rows : rows[j].filename # TeamJpg

\* the rows of the table with a googleId
RowsOf(googleId) == {i \in DOMAIN rows : rows[i].googleId = googleId}

\* C23: when the syncImage calls of a syncImagesToS3 have all returned the
\* table has one row at most for a googleId
C23_OneRowPerGoogleId ==
    Returned = CallIds
        => \A i \in DOMAIN rows : Cardinality(RowsOf(rows[i].googleId)) <= 1

\* a call that has found a stored Image inserts no row
C23_NoInsertWhenFound ==
    \A k \in Returned :
        CallOf(k).stored # NoRow
            => CallOf(k).value \in {0, CallOf(k).stored.id}

\* the valid files of a folder, as fetchImageMetadata stores them
WholeMap(folder) ==
    [defined |-> TRUE,
     files |-> {ImageMetadataOf(folder[i]) :
                    i \in {j \in DOMAIN folder : folder[j].id # ""
                                                 /\ folder[j].name # <<>>
                                                 /\ folder[j].modifiedTime # 0}}]

\* C25: fetchImageMetadata never rejects; when the listing fails or a file
\* has no description imageStore.images stays as it was; images is replaced
\* by the map of the whole folder or not changed
C25_ImagesWholeOrUnchanged ==
    /\ [](fetchOutcome.settled = "resolved")
    /\ [][fetchOutcome'.cause # "none" => images' = images]_vars
    /\ [][images' # images => images' = WholeMap(drive)]_vars

\* a fetch failed for a file without description and the store kept the map
\* of an earlier fetch
C25_Witness ==
    /\ fetchOutcome.cause = "missing description"
    /\ fetchOutcome.logged
    /\ images.defined
    /\ images.files # {}

C25_WitnessListingFailed ==
    /\ fetchOutcome.cause = "listing failed"
    /\ images.defined
    /\ images.files # {}

-----------------------------------------------------------------------------
(* Validating the documents *)

\* the request is for the DoD document
ForDod == request.id = GDOCS_DETAILS_ON_DEMAND_ID

\* C24: validate terminates: every request settles; a validate is nested in
\* one other validate at most; a request loads and validates the DoD
\* document once at most, and once exactly when it has resolved, be it for
\* the DoD document or for another one
C24_ValidateTerminates ==
    /\ [](ValidateDepth(stack) - 1 <= 1)
    /\ [](dodLoads <= 1 /\ dodValidations <= 1)
    /\ []((request.id # "none" /\ request.settled = "resolved")
              => (dodLoads = 1 /\ dodValidations = 1))
    /\ [](\A i \in DOMAIN stack :
              (stack[i].fn = "validate"
                   /\ stack[i].id = GDOCS_DETAILS_ON_DEMAND_ID)
                  => i = Len(stack))
    /\ (request.settled = "pending") ~> (request.settled # "pending")

\* the validate of the DoD document runs inside the validate of an article
C24_Witness ==
    /\ ~ForDod
    /\ ValidateDepth(stack) = 2
    /\ Top(stack).fn = "validate"
    /\ Top(stack).id = GDOCS_DETAILS_ON_DEMAND_ID

\* the request for an article has resolved and the article has an error for a
\* detail that the DoD document does not define
C24_WitnessResolved ==
    /\ request = [id |-> "article", settled |-> "resolved"]
    /\ dodLoads = 1
    /\ dodValidations = 1
    /\ errors["article"].details = {"ppp"}
    /\ errors["article"].links =
           {[target |-> "essay", message |-> "unpublished"],
            [target |-> "missing", message |-> "unknown"]}

====
